---- MODULE Spec2Model ----
(***************************************************************************)
(* Natural-language-to-SQL pipeline of the kiosk backend:                  *)
(*   src/backend/ai_service.py        classifier, orchestrator, formatter  *)
(*   src/services/auth-service/db.py  extract_sql, check_aliases           *)
(* Texts are sequences of one-character strings, so that the lexical       *)
(* operations of the code (strip, splitlines, lower/upper, substring and   *)
(* regular-expression searches) are modelled character by character.       *)
(***************************************************************************)
EXTENDS Integers, Sequences, FiniteSets, TLC

(***************************************************************************)
(* Bounds of the model.                                                    *)
(***************************************************************************)
\* number of fragments in the body of a raw model output (extractor runs)
MaxFrags == 4

\* number of fragments in the body of a generated text (pipeline runs)
MaxPipeFrags == 3

\* number of words of a question (classifier runs)
MaxWords == 3

\* number of fragments in the body of a common table expression (extractor runs)
MaxCteFrags == 2

\* number of FROM and JOIN clauses in a statement given to check_aliases
MaxAliasFrags == 3

\* number of concurrent process_ai_query runs
MaxRuns == 2

\* number of concurrent insert_user / register_user calls
MaxCallers == 2

\* number of entries of order['items'] and of order['addOns']
MaxItems == 2

\* the most keywords in a question given to the formatter
MaxKeywords == 2

\* the most columns of a result given to the formatter
MaxCols == 5

\* the most rows of a result given to the formatter
MaxRows == 6

(***************************************************************************)
(* Text primitives (Python str methods used by the code).                  *)
(***************************************************************************)
UpperMap ==
    ("a" :> "A") @@ ("b" :> "B") @@ ("c" :> "C") @@ ("d" :> "D") @@ ("e" :> "E") @@
    ("f" :> "F") @@ ("g" :> "G") @@ ("h" :> "H") @@ ("i" :> "I") @@ ("j" :> "J") @@
    ("k" :> "K") @@ ("l" :> "L") @@ ("m" :> "M") @@ ("n" :> "N") @@ ("o" :> "O") @@
    ("p" :> "P") @@ ("q" :> "Q") @@ ("r" :> "R") @@ ("s" :> "S") @@ ("t" :> "T") @@
    ("u" :> "U") @@ ("v" :> "V") @@ ("w" :> "W") @@ ("x" :> "X") @@ ("y" :> "Y") @@
    ("z" :> "Z")

LowerMap ==
    ("A" :> "a") @@ ("B" :> "b") @@ ("C" :> "c") @@ ("D" :> "d") @@ ("E" :> "e") @@
    ("F" :> "f") @@ ("G" :> "g") @@ ("H" :> "h") @@ ("I" :> "i") @@ ("J" :> "j") @@
    ("K" :> "k") @@ ("L" :> "l") @@ ("M" :> "m") @@ ("N" :> "n") @@ ("O" :> "o") @@
    ("P" :> "p") @@ ("Q" :> "q") @@ ("R" :> "r") @@ ("S" :> "s") @@ ("T" :> "t") @@
    ("U" :> "u") @@ ("V" :> "v") @@ ("W" :> "w") @@ ("X" :> "x") @@ ("Y" :> "y") @@
    ("Z" :> "z")

UpperLetters == DOMAIN LowerMap

LowerLetters == DOMAIN UpperMap

\* str.upper()
upper(s) ==
    [i \in 1..Len(s) |-> IF s[i] \in LowerLetters THEN UpperMap[s[i]] ELSE s[i]]

\* str.lower()
lower(s) ==
    [i \in 1..Len(s) |-> IF s[i] \in UpperLetters THEN LowerMap[s[i]] ELSE s[i]]

\* the whitespace characters str.strip() removes
Whitespace == {" ", "\n", "\t", "\r"}

SetMin(S) == CHOOSE x \in S : \A y \in S : x <= y

SetMax(S) == CHOOSE x \in S : \A y \in S : y <= x

\* str.strip()
strip(s) ==
    LET ink == {i \in 1..Len(s) : s[i] \notin Whitespace}
    IN  IF ink = {} THEN <<>> ELSE SubSeq(s, SetMin(ink), SetMax(ink))

\* pat occurs in s at position i
MatchAt(s, pat, i) ==
    /\ i >= 1
    /\ i + Len(pat) - 1 <= Len(s)
    /\ \A k \in 1..Len(pat) : s[i + k - 1] = pat[k]

\* str.find(pat, from): first position >= from where pat occurs, 0 when none
Find(s, pat, from) ==
    LET hits == {i \in from..(Len(s) - Len(pat) + 1) : MatchAt(s, pat, i)}
    IN  IF hits = {} THEN 0 ELSE SetMin(hits)

\* pat in s
Contains(s, pat) == Find(s, pat, 1) # 0

\* str.startswith(pat)
startswith(s, pat) == MatchAt(s, pat, 1)

\* str.rstrip(";")
rstrip_semicolon(s) ==
    LET keep == {i \in 1..Len(s) : s[i] # ";"}
    IN  IF keep = {} THEN <<>> ELSE SubSeq(s, 1, SetMax(keep))

RECURSIVE SplitOn(_, _, _)
\* str.split(sep) for a one-character separator, from position i on
SplitOn(s, sep, i) ==
    LET hits == {j \in i..Len(s) : s[j] = sep}
    IN  IF hits = {} THEN <<SubSeq(s, i, Len(s))>>
        ELSE <<SubSeq(s, i, SetMin(hits) - 1)>> \o SplitOn(s, sep, SetMin(hits) + 1)

\* str.splitlines(): the pieces between line breaks, without a final empty piece
splitlines(s) ==
    LET pieces == SplitOn(s, "\n", 1)
    IN  IF pieces[Len(pieces)] = <<>> THEN SubSeq(pieces, 1, Len(pieces) - 1)
        ELSE pieces

RECURSIVE JoinLines(_)
\* "\n".join(lines)
JoinLines(lines) ==
    IF lines = <<>> THEN <<>>
    ELSE IF Len(lines) = 1 THEN lines[1]
    ELSE lines[1] \o <<"\n">> \o JoinLines(Tail(lines))

\* the character U+0060 (a string literal cannot hold it)
Backtick == "backtick"

(***************************************************************************)
(* Literals of the extractor.                                              *)
(***************************************************************************)
kwSELECT == <<"S", "E", "L", "E", "C", "T">>

kwWITH == <<"W", "I", "T", "H">>

kwselect == <<"s", "e", "l", "e", "c", "t">>

kwwith == <<"w", "i", "t", "h">>

FenceOpen == <<Backtick, Backtick, Backtick, "S", "Q", "L">>

FenceClose == <<Backtick, Backtick, Backtick>>

(***************************************************************************)
(* extract_sql (db.py 72-124).                                             *)
(***************************************************************************)
\* re.search(r"```sql(.*?)```", raw, DOTALL | IGNORECASE): <<group 1>>, or <<>>
\* when there is no match.  The leftmost opening marker that is followed by a
\* closing marker is the first opening marker, and the lazy group ends at the
\* first closing marker after it.
fence_match(raw_output) ==
    LET open == Find(upper(raw_output), FenceOpen, 1)
        close == IF open = 0 THEN 0
                 ELSE Find(raw_output, FenceClose, open + Len(FenceOpen))
    IN  IF open = 0 \/ close = 0 THEN <<>>
        ELSE <<SubSeq(raw_output, open + Len(FenceOpen), close - 1)>>

\* variant of starts_statement: the keyword anywhere in the line
starts_statement_anywhere(line) ==
    LET l == lower(strip(line))
    IN  Contains(l, kwselect) \/ Contains(l, kwwith)

\* line.strip().lower().startswith(("select", "with"))
starts_statement(line) ==
    LET l == lower(strip(line))
    IN  startswith(l, kwselect) \/ startswith(l, kwwith)

RECURSIVE scan_lines_no_break(_, _, _, _)
\* variant of scan_lines: a blank line is skipped instead of ending the scan
scan_lines_no_break(lines, k, found, sql_lines) ==
    IF k > Len(lines) THEN sql_lines
    ELSE LET f == found \/ (LET l == lower(strip(lines[k]))
                            IN  startswith(l, kwselect) \/ startswith(l, kwwith))
         IN  IF f
             THEN scan_lines_no_break(lines, k + 1, f, Append(sql_lines, lines[k]))
             ELSE scan_lines_no_break(lines, k + 1, f, sql_lines)

RECURSIVE scan_lines(_, _, _, _)
\* the for loop of lines 95-101: sql_lines after the lines from k on
scan_lines(lines, k, found, sql_lines) ==
    IF k > Len(lines) THEN sql_lines
    ELSE LET f == found \/ starts_statement(lines[k])
         IN  IF f
             THEN IF strip(lines[k]) = <<>> THEN sql_lines
                  ELSE scan_lines(lines, k + 1, f, Append(sql_lines, lines[k]))
             ELSE scan_lines(lines, k + 1, f, sql_lines)

\* lines 86-102: the candidate statement, the local sql before the clean-up
candidate_sql(raw_output) ==
    LET match == fence_match(raw_output)
    IN  IF match # <<>> THEN strip(match[1])
        ELSE strip(JoinLines(scan_lines(splitlines(strip(raw_output)), 1, FALSE, <<>>)))

\* variant of cut_at_semicolon: the last piece, split(";")[-1]
cut_at_semicolon_last(sql) ==
    IF Contains(sql, <<";">>)
    THEN LET pieces == SplitOn(sql, ";", 1) IN strip(pieces[Len(pieces)])
    ELSE sql

\* lines 107-108: sql.split(";")[0].strip() when sql contains ";"
cut_at_semicolon(sql) ==
    IF Contains(sql, <<";">>) THEN strip(SplitOn(sql, ";", 1)[1]) ELSE sql

\* lines 111-115: re.search(r"SELECT.*", sql, DOTALL | IGNORECASE) when sql
\* contains WITH in any case; the text is kept when the search finds nothing
strip_with(sql) ==
    IF Contains(upper(sql), kwWITH)
    THEN LET at == Find(upper(sql), kwSELECT, 1)
         IN  IF at # 0 THEN strip(SubSeq(sql, at, Len(sql))) ELSE sql
    ELSE sql

\* variant of clean_sql: the final test of lines 121-122 is missing
clean_sql_unchecked(sql) ==
    IF sql # <<>>
    THEN rstrip_semicolon(strip_with(cut_at_semicolon(sql)))
    ELSE sql

\* lines 104-124: the clean-up of a candidate
clean_sql(sql) ==
    IF sql # <<>>
    THEN LET cleaned == rstrip_semicolon(strip_with(cut_at_semicolon(sql)))
         IN  IF ~startswith(upper(cleaned), kwSELECT) THEN <<>> ELSE cleaned
    ELSE sql

extract_sql(raw_output) == clean_sql(candidate_sql(raw_output))

(***************************************************************************)
(* Classifier and conversational responder (ai_service.py 20-85).          *)
(***************************************************************************)
\* ai_service.py 20-26
CONVERSATIONAL_PHRASES ==
    << <<"h", "e", "l", "l", "o">>,
       <<"h", "i">>,
       <<"h", "e", "y">>,
       <<"g", "o", "o", "d", " ", "m", "o", "r", "n", "i", "n", "g">>,
       <<"g", "o", "o", "d", " ", "a", "f", "t", "e", "r", "n", "o", "o", "n">>,
       <<"g", "o", "o", "d", " ", "e", "v", "e", "n", "i", "n", "g">>,
       <<"h", "o", "w", " ", "a", "r", "e", " ", "y", "o", "u">>,
       <<"h", "o", "w", "'", "s", " ", "i", "t", " ", "g", "o", "i", "n", "g">>,
       <<"w", "h", "a", "t", "'", "s", " ", "u", "p">>,
       <<"t", "h", "a", "n", "k", " ", "y", "o", "u">>,
       <<"t", "h", "a", "n", "k", "s">>,
       <<"a", "p", "p", "r", "e", "c", "i", "a", "t", "e", " ", "i", "t">>,
       <<"b", "y", "e">>,
       <<"g", "o", "o", "d", "b", "y", "e">>,
       <<"s", "e", "e", " ", "y", "o", "u">>,
       <<"t", "a", "l", "k", " ", "t", "o", " ", "y", "o", "u", " ", "l", "a", "t", "e", "r">>,
       <<"h", "e", "l", "p">>,
       <<"w", "h", "a", "t", " ", "c", "a", "n", " ", "y", "o", "u", " ", "d", "o">>,
       <<"c", "a", "p", "a", "b", "i", "l", "i", "t", "i", "e", "s">> >>

\* ai_service.py 29-33
BUSINESS_QUESTIONS ==
    << <<"r", "e", "v", "e", "n", "u", "e">>,
       <<"e", "a", "r", "n", "i", "n", "g", "s">>,
       <<"s", "a", "l", "e", "s">>,
       <<"o", "r", "d", "e", "r", "s">>,
       <<"c", "u", "s", "t", "o", "m", "e", "r", "s">>,
       <<"i", "t", "e", "m", "s">>,
       <<"b", "e", "s", "t">>,
       <<"l", "e", "a", "s", "t">>,
       <<"t", "o", "p">>,
       <<"a", "v", "e", "r", "a", "g", "e">>,
       <<"t", "o", "t", "a", "l">>,
       <<"c", "o", "u", "n", "t">>,
       <<"h", "o", "w", " ", "m", "u", "c", "h">>,
       <<"h", "o", "w", " ", "m", "a", "n", "y">>,
       <<"w", "h", "i", "c", "h", " ", "d", "a", "y">>,
       <<"d", "i", "n", "e", "-", "i", "n">>,
       <<"t", "a", "k", "e", "o", "u", "t">>,
       <<"p", "i", "c", "k", " ", "u", "p">>,
       <<"e", "a", "r", "n">>,
       <<"s", "p", "e", "n", "d">>,
       <<"s", "p", "e", "n", "t">>,
       <<"s", "p", "e", "n", "d", "i", "n", "g">>,
       <<"c", "u", "s", "t", "o", "m", "e", "r">>,
       <<"n", "u", "m", "b", "e", "r">>,
       <<"a", "m", "o", "u", "n", "t">>,
       <<"p", "o", "p", "u", "l", "a", "r">>,
       <<"s", "e", "l", "l", "i", "n", "g">>,
       <<"y", "e", "s", "t", "e", "r", "d", "a", "y">>,
       <<"t", "o", "d", "a", "y">>,
       <<"w", "e", "e", "k">>,
       <<"m", "o", "n", "t", "h">> >>

\* any(term in text for term in terms)
contains_any(text, terms) == \E k \in 1..Len(terms) : Contains(text, terms[k])

\* variant of is_conversational_query: a question without a business term is
\* conversational, with or without a conversational phrase in it
is_conversational_query_no_term(question) ==
    LET question_lower == lower(question)
        is_business == contains_any(question_lower, BUSINESS_QUESTIONS)
    IN  IF is_business THEN FALSE ELSE TRUE

\* variant of is_conversational_query: a conversational phrase decides before
\* the business terms are looked at
is_conversational_query_phrase_first(question) ==
    LET question_lower == lower(question)
        is_business == contains_any(question_lower, BUSINESS_QUESTIONS)
        is_conversational == contains_any(question_lower, CONVERSATIONAL_PHRASES)
    IN  IF is_conversational THEN TRUE ELSE FALSE

\* ai_service.py 35-55
is_conversational_query(question) ==
    LET question_lower == lower(question)
        is_business == contains_any(question_lower, BUSINESS_QUESTIONS)
        is_conversational == contains_any(question_lower, CONVERSATIONAL_PHRASES)
    IN  IF is_business THEN FALSE ELSE is_conversational

\* the phrase buckets of get_conversational_response, lines 69, 72, 75, 78, 81
greeting_phrases ==
    << <<"h", "e", "l", "l", "o">>,
       <<"h", "i">>,
       <<"h", "e", "y">>,
       <<"g", "o", "o", "d", " ", "m", "o", "r", "n", "i", "n", "g">>,
       <<"g", "o", "o", "d", " ", "a", "f", "t", "e", "r", "n", "o", "o", "n">>,
       <<"g", "o", "o", "d", " ", "e", "v", "e", "n", "i", "n", "g">> >>

status_phrases ==
    << <<"h", "o", "w", " ", "a", "r", "e", " ", "y", "o", "u">>,
       <<"h", "o", "w", "'", "s", " ", "i", "t", " ", "g", "o", "i", "n", "g">>,
       <<"w", "h", "a", "t", "'", "s", " ", "u", "p">> >>

gratitude_phrases ==
    << <<"t", "h", "a", "n", "k", " ", "y", "o", "u">>,
       <<"t", "h", "a", "n", "k", "s">>,
       <<"a", "p", "p", "r", "e", "c", "i", "a", "t", "e", " ", "i", "t">> >>

farewell_phrases ==
    << <<"b", "y", "e">>,
       <<"g", "o", "o", "d", "b", "y", "e">>,
       <<"s", "e", "e", " ", "y", "o", "u">>,
       <<"t", "a", "l", "k", " ", "t", "o", " ", "y", "o", "u", " ", "l", "a", "t", "e", "r">> >>

help_phrases ==
    << <<"h", "e", "l", "p">>,
       <<"w", "h", "a", "t", " ", "c", "a", "n", " ", "y", "o", "u", " ", "d", "o">>,
       <<"c", "a", "p", "a", "b", "i", "l", "i", "t", "i", "e", "s">> >>

\* the fixed sentences of get_conversational_response; a text that is not
\* inspected character by character is a sequence of pieces
GREETING == <<"Hello! I'm Nova AI, your sales and inventory assistant. How can I help you today?">>

STATUS_REPLY == <<"I'm doing great! Ready to help you with your sales data and inventory questions. What would you like to know?">>

GRATITUDE_REPLY == <<"You're welcome! Is there anything else you'd like to know about your sales or inventory?">>

FAREWELL_REPLY == <<"Goodbye! Feel free to come back anytime if you need help with your sales data.">>

HELP_REPLY == <<"I can help you with sales analysis, inventory tracking, customer insights, and financial reports. I can answer questions about best-selling items, revenue, customer spending, order types, and much more. Just ask me anything about your business data!">>

\* variant of conversational_bucket: the help phrases are not looked for
conversational_bucket_no_help(question) ==
    LET question_lower == lower(question)
    IN  IF contains_any(question_lower, greeting_phrases) THEN "greeting"
        ELSE IF contains_any(question_lower, status_phrases) THEN "status"
        ELSE IF contains_any(question_lower, gratitude_phrases) THEN "gratitude"
        ELSE IF contains_any(question_lower, farewell_phrases) THEN "farewell"
        ELSE "default"

\* the branch of get_conversational_response a question takes, lines 69-85
conversational_bucket(question) ==
    LET question_lower == lower(question)
    IN  IF contains_any(question_lower, greeting_phrases) THEN "greeting"
        ELSE IF contains_any(question_lower, status_phrases) THEN "status"
        ELSE IF contains_any(question_lower, gratitude_phrases) THEN "gratitude"
        ELSE IF contains_any(question_lower, farewell_phrases) THEN "farewell"
        ELSE IF contains_any(question_lower, help_phrases) THEN "help"
        ELSE "default"

\* ai_service.py 57-85
get_conversational_response(question) ==
    LET bucket == conversational_bucket(question)
    IN  IF bucket = "greeting" THEN GREETING
        ELSE IF bucket = "status" THEN STATUS_REPLY
        ELSE IF bucket = "gratitude" THEN GRATITUDE_REPLY
        ELSE IF bucket = "farewell" THEN FAREWELL_REPLY
        ELSE IF bucket = "help" THEN HELP_REPLY
        ELSE GREETING

(***************************************************************************)
(* check_aliases (db.py 126-155).                                          *)
(***************************************************************************)
kwFROM == <<"F", "R", "O", "M">>

kwJOIN == <<"J", "O", "I", "N">>

kwAS == <<"A", "S">>

\* the characters \w matches
WordChars ==
    UpperLetters \cup LowerLetters \cup {"0", "1", "2", "3", "4", "5", "6", "7", "8", "9", "_"}

\* last position of the longest run of characters of cls that starts at i;
\* i - 1 when text[i] is not in cls (a greedy \w+ or \s+ that starts at i)
RunEnd(text, cls, i) ==
    LET stops == {j \in i..Len(text) : text[j] \notin cls}
    IN  IF i > Len(text) THEN i - 1
        ELSE IF stops = {} THEN Len(text) ELSE SetMin(stops) - 1

\* a match of (FROM|JOIN)\s+(\w+)\s+(?:AS\s+)?(\w+), IGNORECASE, that starts at
\* i: <<last position, group 3>>, or <<>>.  The optional group is tried first
\* and given up when no \w+ can follow it.
from_join_match(text, i) ==
    LET up == upper(text)
        space1 == RunEnd(text, Whitespace, i + 4)
        table == RunEnd(text, WordChars, space1 + 1)
        space2 == RunEnd(text, Whitespace, table + 1)
        space3 == RunEnd(text, Whitespace, space2 + 3)
        with_as == /\ MatchAt(up, kwAS, space2 + 1)
                   /\ space3 >= space2 + 3
                   /\ RunEnd(text, WordChars, space3 + 1) >= space3 + 1
        before == IF with_as THEN space3 ELSE space2
        alias == RunEnd(text, WordChars, before + 1)
    IN  IF /\ (MatchAt(up, kwFROM, i) \/ MatchAt(up, kwJOIN, i))
           /\ space1 >= i + 4
           /\ table >= space1 + 1
           /\ space2 >= table + 1
           /\ alias >= before + 1
        THEN <<alias, SubSeq(text, before + 1, alias)>>
        ELSE <<>>

RECURSIVE declared_aliases(_, _)
\* lines 144-146: re.findall scans for matches that do not overlap, from pos on
declared_aliases(text, pos) ==
    LET hits == {i \in pos..Len(text) : from_join_match(text, i) # <<>>}
    IN  IF hits = {} THEN {}
        ELSE LET m == from_join_match(text, SetMin(hits))
             IN  {lower(m[2])} \cup declared_aliases(text, m[1] + 1)

\* a match of (\w+)\.\w+ that starts at i: <<last position, group 1>>, or <<>>
dotted_match(text, i) ==
    LET prefix == RunEnd(text, WordChars, i)
        column == RunEnd(text, WordChars, prefix + 2)
    IN  IF /\ prefix >= i
           /\ prefix + 1 <= Len(text)
           /\ text[prefix + 1] = "."
           /\ column >= prefix + 2
        THEN <<column, SubSeq(text, i, prefix)>>
        ELSE <<>>

RECURSIVE used_aliases(_, _)
\* lines 149-151
used_aliases(text, pos) ==
    LET hits == {i \in pos..Len(text) : dotted_match(text, i) # <<>>}
    IN  IF hits = {} THEN {}
        ELSE LET m == dotted_match(text, SetMin(hits))
             IN  {lower(m[2])} \cup used_aliases(text, m[1] + 1)

check_aliases(text) == used_aliases(text, 1) \ declared_aliases(text, 1)

(***************************************************************************)
(* format_natural_response (ai_service.py 187-289).                        *)
(* A query result is a sequence of rows, a row a sequence of values, a     *)
(* value a record of its kind (none, int, dec, str) and its text.          *)
(***************************************************************************)
txt_revenue == <<"r", "e", "v", "e", "n", "u", "e">>

txt_sales == <<"s", "a", "l", "e", "s">>

txt_earnings == <<"e", "a", "r", "n", "i", "n", "g", "s">>

txt_customers == <<"c", "u", "s", "t", "o", "m", "e", "r", "s">>

txt_visitors == <<"v", "i", "s", "i", "t", "o", "r", "s">>

txt_orders == <<"o", "r", "d", "e", "r", "s">>

txt_count == <<"c", "o", "u", "n", "t">>

txt_spending == <<"s", "p", "e", "n", "d", "i", "n", "g">>

txt_selling == <<"s", "e", "l", "l", "i", "n", "g">>

txt_popular == <<"p", "o", "p", "u", "l", "a", "r">>

txt_least == <<"l", "e", "a", "s", "t">>

txt_worst == <<"w", "o", "r", "s", "t">>

txt_types == <<"t", "y", "p", "e", "s">>

txt_customer == <<"c", "u", "s", "t", "o", "m", "e", "r">>

txt_spent == <<"s", "p", "e", "n", "t">>

NoneValue == [kind |-> "none", text |-> "None"]

\* str(value), as an f-string renders it
str_value(value) == value.text

\* repr(value), as str(tuple) renders each element
repr_value(value) ==
    IF value.kind = "str" THEN <<"'", value.text, "'">>
    ELSE IF value.kind = "dec" THEN <<"Decimal('", value.text, "')">>
    ELSE <<value.text>>

RECURSIVE join_pieces(_, _)
\* sep.join(items) for items that are texts in pieces
join_pieces(items, sep) ==
    IF items = <<>> THEN <<>>
    ELSE IF Len(items) = 1 THEN items[1]
    ELSE items[1] \o <<sep>> \o join_pieces(Tail(items), sep)

\* str(row) of a tuple of two or more values
str_row(row) ==
    <<"(">> \o join_pieces([k \in 1..Len(row) |-> repr_value(row[k])], ", ") \o <<")">>

\* result[:5]
first_five(result) == SubSeq(result, 1, IF Len(result) < 5 THEN Len(result) ELSE 5)

\* variant of spending_text: the ranked list is not cut after five rows
spending_text_all_rows(result) ==
    IF Len(result) > 1
    THEN <<"Top spending customers:\n">> \o
         join_pieces([i \in 1..Len(result) |->
                        <<ToString(i), ". ", str_value(result[i][1]), ": $",
                          str_value(result[i][2])>>], "\n")
    ELSE <<str_value(result[1][1]), " spent $", str_value(result[1][2]), ".">>

\* lines 227-235 and 259-267: the ranked list, or the single spender
spending_text(result) ==
    IF Len(result) > 1
    THEN <<"Top spending customers:\n">> \o
         join_pieces([i \in 1..Len(first_five(result)) |->
                        <<ToString(i), ". ", str_value(result[i][1]), ": $",
                          str_value(result[i][2])>>], "\n")
    ELSE <<str_value(result[1][1]), " spent $", str_value(result[1][2]), ".">>

\* variant of format_one_column: customers and visitors are looked for before
\* revenue, sales and earnings
format_one_column_customers_first(question_lower, result) ==
    LET value == result[1][1]
    IN  IF value.kind = "none" THEN <<"No data found for that question.">>
        ELSE IF Contains(question_lower, txt_customers) \/ Contains(question_lower, txt_visitors)
        THEN <<str_value(value), " unique customers.">>
        ELSE IF \/ Contains(question_lower, txt_revenue)
                \/ Contains(question_lower, txt_sales)
                \/ Contains(question_lower, txt_earnings)
        THEN <<"Total revenue is $", str_value(value), ".">>
        ELSE IF Contains(question_lower, txt_orders) \/ Contains(question_lower, txt_count)
        THEN <<str_value(value), " orders.">>
        ELSE <<"The result is ", str_value(value), ".">>

\* lines 209-222: a result of one column
format_one_column(question_lower, result) ==
    LET value == result[1][1]
    IN  IF value.kind = "none" THEN <<"No data found for that question.">>
        ELSE IF \/ Contains(question_lower, txt_revenue)
                \/ Contains(question_lower, txt_sales)
                \/ Contains(question_lower, txt_earnings)
        THEN <<"Total revenue is $", str_value(value), ".">>
        ELSE IF Contains(question_lower, txt_customers) \/ Contains(question_lower, txt_visitors)
        THEN <<str_value(value), " unique customers.">>
        ELSE IF Contains(question_lower, txt_orders) \/ Contains(question_lower, txt_count)
        THEN <<str_value(value), " orders.">>
        ELSE <<"The result is ", str_value(value), ".">>

\* variant of two_column_branch: selling and popular are looked for first
two_column_branch_selling_first(question_lower) ==
    IF Contains(question_lower, txt_selling) \/ Contains(question_lower, txt_popular)
    THEN "b"
    ELSE IF Contains(question_lower, txt_spending) \/ Contains(question_lower, txt_customers)
    THEN "a"
    ELSE IF Contains(question_lower, txt_orders) \/ Contains(question_lower, txt_types)
    THEN "c"
    ELSE IF Contains(question_lower, txt_customer) /\ Contains(question_lower, txt_count)
    THEN "d"
    ELSE IF /\ Contains(question_lower, txt_customer)
            /\ (Contains(question_lower, txt_spent) \/ Contains(question_lower, txt_spending))
    THEN "e"
    ELSE "f"

\* the branch of lines 226-274 a question selects for a result of two columns
two_column_branch(question_lower) ==
    IF Contains(question_lower, txt_spending) \/ Contains(question_lower, txt_customers)
    THEN "a"
    ELSE IF Contains(question_lower, txt_selling) \/ Contains(question_lower, txt_popular)
    THEN "b"
    ELSE IF Contains(question_lower, txt_orders) \/ Contains(question_lower, txt_types)
    THEN "c"
    ELSE IF Contains(question_lower, txt_customer) /\ Contains(question_lower, txt_count)
    THEN "d"
    ELSE IF /\ Contains(question_lower, txt_customer)
            /\ (Contains(question_lower, txt_spent) \/ Contains(question_lower, txt_spending))
    THEN "e"
    ELSE "f"

\* variant of format_two_columns: the selling branch reads the last row
format_two_columns_last_row(question_lower, result) ==
    LET branch == two_column_branch(question_lower)
        last == result[Len(result)]
    IN  IF branch = "b"
        THEN IF Contains(question_lower, txt_least) \/ Contains(question_lower, txt_worst)
             THEN <<"The least selling item is ", str_value(last[1]), " with ",
                    str_value(last[2]), " orders.">>
             ELSE <<"The best selling item is ", str_value(last[1]), " with ",
                    str_value(last[2]), " orders.">>
        ELSE <<"Results: ">>

\* lines 224-274: a result of two columns
format_two_columns(question_lower, result) ==
    LET branch == two_column_branch(question_lower)
    IN  IF branch = "a" THEN spending_text(result)
        ELSE IF branch = "b"
        THEN IF Contains(question_lower, txt_least) \/ Contains(question_lower, txt_worst)
             THEN <<"The least selling item is ", str_value(result[1][1]), " with ",
                    str_value(result[1][2]), " orders.">>
             ELSE <<"The best selling item is ", str_value(result[1][1]), " with ",
                    str_value(result[1][2]), " orders.">>
        ELSE IF branch = "c"
        THEN <<"Order breakdown: ">> \o
             join_pieces([k \in 1..Len(result) |->
                            <<str_value(result[k][1]), ": ", str_value(result[k][2]),
                              " orders">>], ", ") \o <<".">>
        ELSE IF branch = "d"
        THEN <<str_value(result[1][1]), " unique customers.">>
        ELSE IF branch = "e" THEN spending_text(result)
        ELSE <<"Results: ">> \o
             join_pieces([k \in 1..Len(first_five(result)) |->
                            <<str_value(result[k][1]), " (", str_value(result[k][2]), ")">>],
                         ", ")

\* line 283 reads row[4], the fifth value, of a row of four or more values:
\* the rows of a small result on which that read raises IndexError
rows_raising(result) == {k \in 1..Len(result) : Len(result[k]) = 4}

\* lines 276-289: a result of three or more columns
format_wide(result) ==
    IF Len(result) <= 3
    THEN <<"Here's what I found: ">> \o
         join_pieces([k \in 1..Len(result) |->
                        IF Len(result[k]) >= 4
                        THEN <<"Order ", str_value(result[k][1]), ": ",
                               str_value(result[k][3]), " (", str_value(result[k][4]),
                               ") - $", str_value(result[k][5])>>
                        ELSE str_row(result[k])], ", ")
    ELSE <<"I found ", ToString(Len(result)), " records for your query.">>

\* whether format_natural_response raises instead of returning
format_raises(question, result) ==
    /\ result # <<>>
    /\ Len(result[1]) \notin {1, 2}
    /\ Len(result) <= 3
    /\ rows_raising(result) # {}

\* variant of format_natural_response: the keywords of the question are looked
\* at before the result is found to be empty
format_natural_response_keywords_first(question, result) ==
    LET question_lower == lower(question)
    IN  IF Contains(question_lower, txt_revenue) THEN <<"Total revenue is $", "0", ".">>
        ELSE IF result = <<>> THEN <<"I couldn't find any data for that question.">>
        ELSE <<"The result is ", str_value(result[1][1]), ".">>

\* ai_service.py 187-289: the text returned (when format_raises is false)
format_natural_response(question, result) ==
    LET question_lower == lower(question)
    IN  IF result = <<>> THEN <<"I couldn't find any data for that question.">>
        ELSE IF Len(result[1]) = 1 THEN format_one_column(question_lower, result)
        ELSE IF Len(result[1]) = 2 THEN format_two_columns(question_lower, result)
        ELSE format_wide(result)

(***************************************************************************)
(* Raw model outputs: a frame (text before and after) around a body that   *)
(* is a concatenation of at most MaxFrags fragments.                       *)
(***************************************************************************)
Fragments ==
    { kwSELECT, kwwith, <<"(">>, <<")">>, <<" ">>, <<"\n">>, <<";">>, <<"1">> }

Frames ==
    { <<  <<>>, <<>>  >>,
      \* ```sql on its own line
      <<  <<Backtick, Backtick, Backtick, "s", "q", "l", "\n">>, <<"\n", Backtick, Backtick, Backtick>>  >>,
      \* prose and fence on one line, upper-case tag
      <<  <<"H", "e", "r", "e", ":", " ", Backtick, Backtick, Backtick, "S", "Q", "L", " ">>,
          <<Backtick, Backtick, Backtick>>  >>,
      \* fence without a language tag
      <<  <<Backtick, Backtick, Backtick, "\n">>, <<"\n", Backtick, Backtick, Backtick>>  >>,
      \* a statement line before the fenced block
      <<  <<"S", "E", "L", "E", "C", "T", " ", "2", "\n", Backtick, Backtick, Backtick, "s", "q", "l", "\n">>,
          <<"\n", Backtick, Backtick, Backtick>>  >> }

RECURSIVE Bodies(_, _)
\* the concatenations of at most n fragments
Bodies(fragments, n) ==
    IF n = 0 THEN { <<>> }
    ELSE LET shorter == Bodies(fragments, n - 1)
         IN  shorter \cup { b \o f : b \in shorter, f \in fragments }

RawTexts(fragments, n) == { fr[1] \o b \o fr[2] : fr \in Frames, b \in Bodies(fragments, n) }

\* statements that open with a common table expression: the header, a body of
\* at most n fragments in parentheses, and a main statement
CteTexts(n) ==
    { <<"W", "I", "T", "H", " ", "x", " ", "A", "S", " ", "(">> \o b \o
      <<")", " ", "S", "E", "L", "E", "C", "T", " ", "2">> : b \in Bodies(Fragments, n) }

\* fragments of the outputs the generative backend returns in pipeline runs
StatementFragments ==
    { kwSELECT,
      <<" ", "t", ".", "a">>,
      <<" ", "F", "R", "O", "M", " ", "x", " ", "t">>,
      <<";">>,
      <<"\n">>,
      <<"w", "i", "t", "h", " ">> }

(***************************************************************************)
(* Questions.                                                              *)
(***************************************************************************)
QuestionWords ==
    { <<"h", "i">>,
      <<"H", "e", "l", "l", "o">>,
      <<"T", "h", "a", "n", "k", "s">>,
      <<"t", "h", "i", "s">>,
      <<"R", "E", "V", "E", "N", "U", "E">>,
      <<"t", "o", "d", "a", "y">>,
      <<"m", "e", "n", "u">>,
      <<"h", "e", "l", "p">> }

RECURSIVE Questions(_)
\* one to n words separated by single spaces
Questions(n) ==
    IF n <= 1 THEN QuestionWords
    ELSE LET shorter == Questions(n - 1)
         IN  shorter \cup { q \o <<" ">> \o w : q \in shorter, w \in QuestionWords }

\* the questions of the pipeline runs: a greeting, a word of thanks, a business
\* question that opens with a greeting, and a question without any listed term
\* or phrase
PipelineQuestions ==
    { <<"h", "e", "l", "l", "o">>,
      <<"T", "h", "a", "n", "k", "s">>,
      <<"h", "i", ",", " ", "t", "o", "t", "a", "l", " ", "r", "e", "v", "e", "n", "u", "e", "?">>,
      <<"s", "h", "o", "w", " ", "a", "l", "l", " ", "r", "o", "w", "s">> }

(***************************************************************************)
(* Outcomes of the external collaborators in pipeline runs.                *)
(***************************************************************************)
\* the error texts query_ollama returns, ai_service.py 180-185
OllamaErrors ==
    { "Connection error: Could not connect to Ollama service",
      "Timeout error: Ollama service took too long to respond",
      "Unexpected error: <exception text>" }

\* str(err) of a mysql.connector.Error, db.py 177-178
DbErrors == { "1064 (42000): You have an error in your SQL syntax" }

IntValue(text) == [kind |-> "int", text |-> text]

DecValue(text) == [kind |-> "dec", text |-> text]

StrValue(text) == [kind |-> "str", text |-> text]

TransactionRow(n) ==
    SubSeq(<<IntValue("7"), IntValue("3"), DecValue("12.50"), StrValue("dine-in"),
             NoneValue>>, 1, n)

\* the results the store returns in pipeline runs: no row, and rows of one to
\* five columns
PipelineResults ==
    { <<>>,
      << <<DecValue("1500.00")>> >>,
      << <<NoneValue>> >>,
      << <<StrValue("Burger"), IntValue("42")>> >>,
      << TransactionRow(3) >>,
      << TransactionRow(4) >>,
      << TransactionRow(5) >>,
      << TransactionRow(4), TransactionRow(4), TransactionRow(4), TransactionRow(4) >> }

(***************************************************************************)
(* State.                                                                  *)
(***************************************************************************)
VARIABLES
    xpc,          \* extractor run: "idle", "input", "extracted", "reextracted"
    raw_output,   \* extractor run: the argument of extract_sql
    candidate,    \* extractor run: the local sql at line 103
    sql,          \* extractor run: the value extract_sql returned
    again,        \* extractor run: extract_sql applied to its own result
    cpc,          \* classifier run: "idle", "input", "classified", "responded"
    cquestion,    \* classifier run: the question
    conversational, \* classifier run: the value of is_conversational_query
    response,     \* classifier run: the value of get_conversational_response
    pc,           \* process_ai_query: the point the run has reached
    question,     \* process_ai_query: its argument
    prompt,       \* process_ai_query: the prompt built at line 319
    ai_response,  \* process_ai_query: the text query_ollama returned
    error,        \* process_ai_query: the error query_ollama returned, "" for None
    generated_sql, \* process_ai_query: the value of extract_sql at line 330
    undeclared_aliases, \* process_ai_query: the value of check_aliases at line 340
    result,       \* process_ai_query: the rows execute_query returned
    db_error,     \* process_ai_query: the error execute_query returned, "" for None
    returned,     \* process_ai_query: the envelopes returned to the caller
    calls,        \* process_ai_query: the functions called so far, in order
    exec_args,    \* the statements execute_query was called with, in order
    log,          \* the lines printed to the server log, by kind
    payload,      \* backend /ai-query: the JSON body of the request
    http,         \* backend /ai-query: the responses sent, status and body
    fpc,          \* formatter run: "idle", "input", "formatted"
    fquestion,    \* formatter run: the question argument
    fresult,      \* formatter run: the result argument, a sequence of rows
    ftext,        \* formatter run: the text format_natural_response returned
    fraised,      \* formatter run: format_natural_response raised an exception
    lpc,          \* llm-service /ai-query: the point the handler has reached
    lquestion,    \* llm-service /ai-query: the question of the request body
    lhealthy,     \* llm-service /ai-query: the value of check_ollama_health
    lresponse,    \* llm-service /ai-query: the responses sent, status and body
    apc,          \* alias run: "idle", "input", "checked"
    atext,        \* alias run: the argument of check_aliases
    aliases,      \* alias run: the set check_aliases returned
    tables,       \* concurrent runs: the module-level vocabulary tables
    stdout,       \* concurrent runs: the lines printed, by run and kind
    runs,         \* concurrent runs: the locals of each process_ai_query call
    tpc,          \* process_transaction: the point the call has reached
    tdata,        \* process_transaction: its argument, as the facts that steer it
    store,        \* process_transaction: the rows persisted in the four tables
    tids,         \* process_transaction: user_id and transaction_id of the call
    treturned,    \* process_transaction: the dictionaries returned
    tbefore,      \* process_transaction: the rows persisted when it was called
    users,        \* users table: the rows persisted, in insertion order
    ucalls,       \* concurrent insert_user / register_user calls, by caller
    unique_phone  \* users table: the store rejects a second row of a phone

xvars == <<xpc, raw_output, candidate, sql, again>>

cvars == <<cpc, cquestion, conversational, response>>

pvars ==
    <<pc, question, prompt, ai_response, error, generated_sql, undeclared_aliases,
      result, db_error, returned, calls, exec_args, log, payload, http>>

fvars == <<fpc, fquestion, fresult, ftext, fraised>>

lvars == <<lpc, lquestion, lhealthy, lresponse>>

avars == <<apc, atext, aliases>>

kvars == <<tables, stdout, runs>>

tvars == <<tpc, tdata, store, tids, treturned, tbefore>>

uvars == <<users, ucalls, unique_phone>>

vars == <<xvars, cvars, pvars, fvars, lvars, avars, kvars, tvars, uvars>>

XIdle ==
    /\ xpc = "idle"
    /\ raw_output = <<>>
    /\ candidate = <<>>
    /\ sql = <<>>
    /\ again = <<>>

CIdle ==
    /\ cpc = "idle"
    /\ cquestion = <<>>
    /\ conversational = FALSE
    /\ response = <<>>

\* the locals of process_ai_query before its first statement
PFresh ==
    /\ prompt = <<>>
    /\ ai_response = <<>>
    /\ error = ""
    /\ generated_sql = <<>>
    /\ undeclared_aliases = {}
    /\ result = <<>>
    /\ db_error = ""
    /\ returned = <<>>
    /\ calls = <<>>
    /\ exec_args = <<>>
    /\ log = <<>>
    /\ http = <<>>

\* a request body that is empty or lacks the key "question"
NoQuestion == [has_question |-> FALSE, question |-> <<>>]

PIdle ==
    /\ pc = "idle"
    /\ payload = NoQuestion
    /\ question = <<>>
    /\ PFresh

FIdle ==
    /\ fpc = "idle"
    /\ fquestion = <<>>
    /\ fresult = <<>>
    /\ ftext = <<>>
    /\ fraised = FALSE

LIdle ==
    /\ lpc = "idle"
    /\ lquestion = <<>>
    /\ lhealthy = FALSE
    /\ lresponse = <<>>

AIdle ==
    /\ apc = "idle"
    /\ atext = <<>>
    /\ aliases = {}

KIdle ==
    /\ tables = <<>>
    /\ stdout = {}
    /\ runs = <<>>

TIdle ==
    /\ tpc = "idle"
    /\ tdata = <<>>
    /\ store = <<>>
    /\ tids = <<>>
    /\ treturned = <<>>
    /\ tbefore = <<>>

UIdle ==
    /\ users = <<>>
    /\ ucalls = <<>>
    /\ unique_phone = FALSE

\* the runs of the later sections have not started
RestIdle == AIdle /\ KIdle /\ TIdle /\ UIdle

(***************************************************************************)
(* Extractor runs: extract_sql on a raw text, then on its own result.      *)
(***************************************************************************)
XInit ==
    /\ xpc = "input"
    /\ raw_output \in RawTexts(Fragments, MaxFrags) \cup CteTexts(MaxCteFrags)
    /\ candidate = <<>>
    /\ sql = <<>>
    /\ again = <<>>
    /\ CIdle
    /\ PIdle
    /\ FIdle
    /\ LIdle
    /\ RestIdle

Extract ==
    /\ xpc = "input"
    /\ candidate' = candidate_sql(raw_output)
    /\ sql' = extract_sql(raw_output)
    /\ xpc' = "extracted"
    /\ UNCHANGED <<raw_output, again, cvars, pvars, fvars, lvars, avars, kvars, tvars, uvars>>

ReExtract ==
    /\ xpc = "extracted"
    /\ again' = extract_sql(sql)
    /\ xpc' = "reextracted"
    /\ UNCHANGED <<raw_output, candidate, sql, cvars, pvars, fvars, lvars, avars, kvars, tvars, uvars>>

XNext == Extract \/ ReExtract

SpecExtract == XInit /\ [][XNext]_vars

(***************************************************************************)
(* Classifier runs: is_conversational_query, then the canned response.     *)
(***************************************************************************)
CInit ==
    /\ cpc = "input"
    /\ cquestion \in Questions(MaxWords)
    /\ conversational = FALSE
    /\ response = <<>>
    /\ XIdle
    /\ PIdle
    /\ FIdle
    /\ LIdle
    /\ RestIdle

ClassifyQuestion ==
    /\ cpc = "input"
    /\ conversational' = is_conversational_query(cquestion)
    /\ cpc' = "classified"
    /\ UNCHANGED <<cquestion, response, xvars, pvars, fvars, lvars, avars, kvars, tvars, uvars>>

Respond ==
    /\ cpc = "classified"
    /\ response' = get_conversational_response(cquestion)
    /\ cpc' = "responded"
    /\ UNCHANGED <<cquestion, conversational, xvars, pvars, fvars, lvars, avars, kvars, tvars, uvars>>

CNext == ClassifyQuestion \/ Respond

SpecClassify == CInit /\ [][CNext]_vars

(***************************************************************************)
(* process_ai_query (ai_service.py 291-363), one action per stage.         *)
(***************************************************************************)
\* line 314
NA_CONVERSATIONAL == <<"N", "/", "A", " ", "(", "C", "o", "n", "v", "e", "r", "s", "a", "t", "i", "o", "n", "a", "l", " ", "q", "u", "e", "r", "y", ")">>

CONNECT_TROUBLE == "Sorry, I'm having trouble connecting to my AI service right now. Please try again later or contact support. ("

NOT_UNDERSTOOD == "Sorry, I couldn't understand that question properly. Please try rephrasing it or ask something simpler."

\* the request bodies of the backend POST /ai-query
Payloads ==
    {NoQuestion} \cup {[has_question |-> TRUE, question |-> q] : q \in PipelineQuestions}

\* app.py 193-196, the text of the exception process_ai_query let escape
EXCEPTION_TEXT == "tuple index out of range"

Init ==
    /\ pc = "received"
    /\ payload \in Payloads
    /\ question = <<>>
    /\ PFresh
    /\ XIdle
    /\ CIdle
    /\ FIdle
    /\ LIdle
    /\ RestIdle

\* app.py 177-188: the body is read; without a question the handler answers 400,
\* with one it calls process_ai_query
ReceiveRequest ==
    /\ pc = "received"
    /\ IF ~payload.has_question
       THEN /\ http' = Append(http, [status |-> 400,
                   body |-> [success |-> FALSE, error |-> <<"No question provided">>]])
            /\ pc' = "responded"
            /\ UNCHANGED question
       ELSE /\ question' = payload.question
            /\ pc' = "start"
            /\ UNCHANGED http
    /\ UNCHANGED <<payload, prompt, ai_response, error, generated_sql, undeclared_aliases,
                   result, db_error, returned, calls, exec_args, log,
                   xvars, cvars, fvars, lvars, avars, kvars, tvars, uvars>>

\* app.py 188-190: whatever process_ai_query returned is sent with jsonify(result),
\* that is with status 200
SendResult ==
    /\ pc = "done"
    /\ http' = Append(http, [status |-> 200, body |-> returned[Len(returned)]])
    /\ pc' = "responded"
    /\ UNCHANGED <<payload, question, prompt, ai_response, error, generated_sql,
                   undeclared_aliases, result, db_error, returned, calls, exec_args, log,
                   xvars, cvars, fvars, lvars, avars, kvars, tvars, uvars>>

\* app.py 192-196: an exception that left process_ai_query is answered with 500
SendFailure ==
    /\ pc = "raised"
    /\ http' = Append(http, [status |-> 500,
            body |-> [success |-> FALSE,
                      error |-> <<"AI query processing failed: ", EXCEPTION_TEXT>>]])
    /\ pc' = "responded"
    /\ UNCHANGED <<payload, question, prompt, ai_response, error, generated_sql,
                   undeclared_aliases, result, db_error, returned, calls, exec_args, log,
                   xvars, cvars, fvars, lvars, avars, kvars, tvars, uvars>>

\* variant of Classify: a conversational question takes the business branch too
ClassifyGenerating ==
    /\ pc = "start"
    /\ calls' = Append(calls, "is_conversational_query")
    /\ pc' = "classified"
    /\ UNCHANGED returned
    /\ UNCHANGED <<question, prompt, ai_response, error, generated_sql,
                   undeclared_aliases, result, db_error, exec_args, log, payload, http,
                   xvars, cvars, fvars, lvars, avars, kvars, tvars, uvars>>

\* lines 309-316
Classify ==
    /\ pc = "start"
    /\ IF is_conversational_query(question)
       THEN /\ calls' = calls \o <<"is_conversational_query", "get_conversational_response">>
            /\ returned' = Append(returned,
                   [success |-> TRUE, question |-> question, sql |-> NA_CONVERSATIONAL,
                    result |-> get_conversational_response(question)])
            /\ pc' = "done"
       ELSE /\ calls' = Append(calls, "is_conversational_query")
            /\ pc' = "classified"
            /\ UNCHANGED returned
    /\ UNCHANGED <<question, prompt, ai_response, error, generated_sql,
                   undeclared_aliases, result, db_error, exec_args, log, payload, http,
                   xvars, cvars, fvars, lvars, avars, kvars, tvars, uvars>>

\* line 319; the prompt embeds the schema text and the question verbatim
CreatePrompt ==
    /\ pc = "classified"
    /\ prompt' = <<"You are a MySQL SQL expert.", "<schema>", "Question: ", question,
                   "<rules>">>
    /\ calls' = Append(calls, "create_ai_prompt")
    /\ pc' = "prompted"
    /\ UNCHANGED <<question, ai_response, error, generated_sql, undeclared_aliases,
                   result, db_error, returned, exec_args, log, payload, http,
                   xvars, cvars, fvars, lvars, avars, kvars, tvars, uvars>>

\* variant of QueryOllamaFails: a failed call is tried again
QueryOllamaRetries ==
    /\ pc = "prompted"
    /\ error = ""
    /\ error' \in OllamaErrors
    /\ calls' = Append(calls, "query_ollama")
    /\ log' = Append(log, "Sending question to Mistral")
    /\ UNCHANGED <<pc, question, prompt, ai_response, generated_sql, undeclared_aliases,
                   result, db_error, returned, exec_args, payload, http,
                   xvars, cvars, fvars, lvars, avars, kvars, tvars, uvars>>

\* lines 322-327, the call failing
QueryOllamaFails ==
    /\ pc = "prompted"
    /\ \E e \in OllamaErrors :
        /\ error' = e
        /\ returned' = Append(returned,
               [success |-> FALSE, error |-> <<CONNECT_TROUBLE, e, ")">>])
    /\ ai_response' = <<>>
    /\ calls' = Append(calls, "query_ollama")
    /\ log' = Append(log, "Sending question to Mistral")
    /\ pc' = "done"
    /\ UNCHANGED <<question, prompt, generated_sql, undeclared_aliases, result,
                   db_error, exec_args, payload, http,
                   xvars, cvars, fvars, lvars, avars, kvars, tvars, uvars>>

\* lines 322-323, the call returning a text
QueryOllamaReturns ==
    /\ pc = "prompted"
    /\ ai_response' \in RawTexts(StatementFragments, MaxPipeFrags)
    /\ calls' = Append(calls, "query_ollama")
    /\ log' = Append(log, "Sending question to Mistral")
    /\ pc' = "generated"
    /\ UNCHANGED <<question, prompt, error, generated_sql, undeclared_aliases, result,
                   db_error, returned, exec_args, payload, http,
                   xvars, cvars, fvars, lvars, avars, kvars, tvars, uvars>>

\* lines 330-337
ExtractSql ==
    /\ pc = "generated"
    /\ generated_sql' = extract_sql(ai_response)
    /\ calls' = Append(calls, "extract_sql")
    /\ log' = Append(log, "Generated SQL")
    /\ IF generated_sql' = <<>>
       THEN /\ returned' = Append(returned, [success |-> FALSE, error |-> <<NOT_UNDERSTOOD>>])
            /\ pc' = "done"
       ELSE /\ pc' = "extracted"
            /\ UNCHANGED returned
    /\ UNCHANGED <<question, prompt, ai_response, error, undeclared_aliases, result,
                   db_error, exec_args, payload, http,
                   xvars, cvars, fvars, lvars, avars, kvars, tvars, uvars>>

\* variant of CheckAliases: an undeclared alias ends the run with the generic
\* failure
CheckAliasesBlocking ==
    /\ pc = "extracted"
    /\ undeclared_aliases' = check_aliases(generated_sql)
    /\ calls' = Append(calls, "check_aliases")
    /\ IF undeclared_aliases' # {}
       THEN /\ log' = Append(log, "Warning: Undeclared alias(es)")
            /\ returned' = Append(returned, [success |-> FALSE, error |-> <<NOT_UNDERSTOOD>>])
            /\ pc' = "done"
       ELSE /\ pc' = "validated"
            /\ UNCHANGED <<log, returned>>
    /\ UNCHANGED <<question, prompt, ai_response, error, generated_sql, result, db_error,
                   exec_args, payload, http,
                   xvars, cvars, fvars, lvars, avars, kvars, tvars, uvars>>

\* lines 340-342
CheckAliases ==
    /\ pc = "extracted"
    /\ undeclared_aliases' = check_aliases(generated_sql)
    /\ calls' = Append(calls, "check_aliases")
    /\ log' = IF undeclared_aliases' # {} THEN Append(log, "Warning: Undeclared alias(es)")
              ELSE log
    /\ pc' = "validated"
    /\ UNCHANGED <<question, prompt, ai_response, error, generated_sql, result, db_error,
                   returned, exec_args, payload, http,
                   xvars, cvars, fvars, lvars, avars, kvars, tvars, uvars>>

\* variant of ExecuteQueryFails: the envelope carries the error of the store
ExecuteQueryFailsLeaking ==
    /\ pc = "validated"
    /\ db_error' \in DbErrors
    /\ result' = <<>>
    /\ exec_args' = Append(exec_args, generated_sql)
    /\ calls' = Append(calls, "execute_query")
    /\ log' = log \o <<"MySQL Error", "Generated SQL">>
    /\ returned' = Append(returned, [success |-> FALSE, error |-> <<NOT_UNDERSTOOD, db_error'>>])
    /\ pc' = "done"
    /\ UNCHANGED <<question, prompt, ai_response, error, generated_sql,
                   undeclared_aliases, payload, http,
                   xvars, cvars, fvars, lvars, avars, kvars, tvars, uvars>>

\* lines 345-352, the store rejecting the statement
ExecuteQueryFails ==
    /\ pc = "validated"
    /\ db_error' \in DbErrors
    /\ result' = <<>>
    /\ exec_args' = Append(exec_args, generated_sql)
    /\ calls' = Append(calls, "execute_query")
    /\ log' = log \o <<"MySQL Error", "Generated SQL">>
    /\ returned' = Append(returned, [success |-> FALSE, error |-> <<NOT_UNDERSTOOD>>])
    /\ pc' = "done"
    /\ UNCHANGED <<question, prompt, ai_response, error, generated_sql,
                   undeclared_aliases, payload, http,
                   xvars, cvars, fvars, lvars, avars, kvars, tvars, uvars>>

\* lines 345-346, the store returning rows
ExecuteQueryReturns ==
    /\ pc = "validated"
    /\ result' \in PipelineResults
    /\ exec_args' = Append(exec_args, generated_sql)
    /\ calls' = Append(calls, "execute_query")
    /\ pc' = "executed"
    /\ UNCHANGED <<question, prompt, ai_response, error, generated_sql,
                   undeclared_aliases, db_error, returned, log, payload, http,
                   xvars, cvars, fvars, lvars, avars, kvars, tvars, uvars>>

\* lines 355-363; an exception of the formatter leaves process_ai_query
FormatResponse ==
    /\ pc = "executed"
    /\ calls' = calls \o <<"format_query_results", "format_natural_response">>
    /\ IF format_raises(question, result)
       THEN /\ pc' = "raised"
            /\ UNCHANGED returned
       ELSE /\ returned' = Append(returned,
                   [success |-> TRUE, question |-> question, sql |-> generated_sql,
                    result |-> format_natural_response(question, result)])
            /\ pc' = "done"
    /\ UNCHANGED <<question, prompt, ai_response, error, generated_sql,
                   undeclared_aliases, result, db_error, exec_args, log, payload, http,
                   xvars, cvars, fvars, lvars, avars, kvars, tvars, uvars>>

Next ==
    \/ ReceiveRequest
    \/ SendResult
    \/ SendFailure
    \/ Classify
    \/ CreatePrompt
    \/ QueryOllamaFails
    \/ QueryOllamaReturns
    \/ ExtractSql
    \/ CheckAliases
    \/ ExecuteQueryFails
    \/ ExecuteQueryReturns
    \/ FormatResponse

Spec == Init /\ [][Next]_vars

(***************************************************************************)
(* Formatter runs: format_natural_response on a question and a result.     *)
(***************************************************************************)
\* the words of the questions: the keywords the formatter looks for, some in
\* upper or mixed case, and a word it does not look for
FormatWords ==
    << <<"R", "e", "v", "e", "n", "u", "e">>, txt_sales, txt_earnings, txt_customers,
       txt_visitors, txt_orders, txt_count, txt_spending,
       <<"S", "e", "l", "l", "i", "n", "g">>, txt_popular, <<"L", "E", "A", "S", "T">>,
       txt_worst, txt_types, txt_customer, txt_spent, <<"i", "t", "e", "m">> >>

RECURSIVE QuestionOf(_)
\* the words of the given positions of FormatWords, in order, separated by spaces
QuestionOf(positions) ==
    IF positions = {} THEN <<>>
    ELSE LET k == SetMin(positions)
             rest == positions \ {k}
         IN  IF rest = {} THEN FormatWords[k]
             ELSE FormatWords[k] \o <<" ">> \o QuestionOf(rest)

\* the questions of at most MaxKeywords words
FormatQuestions ==
    { QuestionOf(positions) :
        positions \in {P \in SUBSET (1..Len(FormatWords)) : Cardinality(P) <= MaxKeywords} }

\* row i of a result of n columns: a name, a number, an amount, a null, ...
ResultRow(n, i) ==
    [k \in 1..n |->
        IF k % 4 = 1 THEN StrValue("N" \o ToString(i + k - 1))
        ELSE IF k % 4 = 2 THEN IntValue(ToString(10 * i + k))
        ELSE IF k % 4 = 3 THEN DecValue(ToString(i) \o ".50")
        ELSE NoneValue]

\* the results: no row; one row of nulls; m rows of n columns each
FormatResults ==
    { <<>>, << <<NoneValue>> >>, << <<NoneValue, NoneValue>> >> }
    \cup { [i \in 1..m |-> ResultRow(n, i)] : n \in 1..MaxCols, m \in 1..MaxRows }

FInit ==
    /\ fpc = "input"
    /\ fquestion \in FormatQuestions
    /\ fresult \in FormatResults
    /\ ftext = <<>>
    /\ fraised = FALSE
    /\ XIdle
    /\ CIdle
    /\ PIdle
    /\ LIdle
    /\ RestIdle

\* ai_service.py 187-289: the call returns a text or raises
Format ==
    /\ fpc = "input"
    /\ fraised' = format_raises(fquestion, fresult)
    /\ ftext' = IF fraised' THEN <<>> ELSE format_natural_response(fquestion, fresult)
    /\ fpc' = "formatted"
    /\ UNCHANGED <<fquestion, fresult, xvars, cvars, pvars, lvars, avars, kvars, tvars, uvars>>

FNext == Format

SpecFormat == FInit /\ [][FNext]_vars

(***************************************************************************)
(* llm-service POST /ai-query (llm-service/main.py 168-227).               *)
(***************************************************************************)
\* main.py 54-60, in the order the dictionary is iterated
DEFAULT_RESPONSES ==
    << [key |-> <<"h", "e", "l", "l", "o">>,
        response |-> "Hello! I'm your AI assistant. How can I help you today?"],
       [key |-> <<"h", "i">>,
        response |-> "Hi there! I'm here to help with your kiosk questions."],
       [key |-> <<"h", "e", "l", "p">>,
        response |-> "I can help you with: ... Just ask me anything!"],
       [key |-> <<"b", "y", "e">>,
        response |-> "Goodbye! Have a great day!"],
       [key |-> <<"t", "h", "a", "n", "k", "s">>,
        response |-> "You're welcome! Let me know if you need anything else."] >>

\* line 182: data.get('question', '').lower().strip()
llm_question(text) == strip(lower(text))

\* lines 188-189: the positions of the keys that occur in the question
matching_keys(q) == {k \in 1..Len(DEFAULT_RESPONSES) : Contains(q, DEFAULT_RESPONSES[k].key)}

\* the questions sent to the llm-service: none, blank, and one to MaxWords words
LlmQuestions == {<<>>, <<" ">>} \cup Questions(MaxWords)

LInit ==
    /\ lpc = "received"
    /\ lquestion \in LlmQuestions
    /\ lhealthy = FALSE
    /\ lresponse = <<>>
    /\ XIdle
    /\ CIdle
    /\ PIdle
    /\ FIdle
    /\ RestIdle

\* lines 181-194: an empty question is refused; the first key of
\* DEFAULT_RESPONSES found in the question answers it with the canned response
LlmReceive ==
    /\ lpc = "received"
    /\ LET q == llm_question(lquestion)
       IN  IF q = <<>>
           THEN /\ lresponse' = Append(lresponse,
                       [status |-> 400, body |-> [error |-> "Question is required"]])
                /\ lpc' = "responded"
           ELSE IF matching_keys(q) # {}
           THEN /\ lresponse' = Append(lresponse,
                       [status |-> 200,
                        body |-> [success |-> TRUE,
                                  response |-> DEFAULT_RESPONSES[SetMin(matching_keys(q))].response,
                                  type |-> "conversational"]])
                /\ lpc' = "responded"
           ELSE /\ lpc' = "advanced"
                /\ UNCHANGED lresponse
    /\ UNCHANGED <<lquestion, lhealthy, xvars, cvars, pvars, fvars, avars, kvars, tvars, uvars>>

\* lines 197 and 213-219: without a healthy Ollama the basic response is sent
LlmCheckHealth ==
    /\ lpc = "advanced"
    /\ lhealthy' \in BOOLEAN
    /\ IF lhealthy'
       THEN /\ lpc' = "healthy"
            /\ UNCHANGED lresponse
       ELSE /\ lresponse' = Append(lresponse,
                   [status |-> 200,
                    body |-> [success |-> TRUE,
                              response |-> "I can help with basic questions! For advanced analytics, please ensure the Phi-2 model is loaded in Ollama.",
                              type |-> "basic"]])
            /\ lpc' = "responded"
    /\ UNCHANGED <<lquestion, xvars, cvars, pvars, fvars, avars, kvars, tvars, uvars>>

\* lines 199-204: query_ollama returns the text of the model
LlmQueryReturns ==
    /\ lpc = "healthy"
    /\ lresponse' = Append(lresponse,
           [status |-> 200,
            body |-> [success |-> TRUE, response |-> "<text of the model>",
                      type |-> "ai_generated"]])
    /\ lpc' = "responded"
    /\ UNCHANGED <<lquestion, lhealthy, xvars, cvars, pvars, fvars, avars, kvars, tvars, uvars>>

\* lines 205-212: query_ollama raises and the fallback is sent
LlmQueryRaises ==
    /\ lpc = "healthy"
    /\ lresponse' = Append(lresponse,
           [status |-> 200,
            body |-> [success |-> TRUE,
                      response |-> "I understand your question, but I need the analytics model to provide detailed insights. Please ensure Ollama is running with sufficient memory.",
                      type |-> "fallback"]])
    /\ lpc' = "responded"
    /\ UNCHANGED <<lquestion, lhealthy, xvars, cvars, pvars, fvars, avars, kvars, tvars, uvars>>

LNext ==
    \/ LlmReceive
    \/ LlmCheckHealth
    \/ LlmQueryReturns
    \/ LlmQueryRaises

SpecLlm == LInit /\ [][LNext]_vars

(***************************************************************************)
(* Alias runs: check_aliases (db.py 126-155) on a statement.               *)
(***************************************************************************)
\* the dotted references of the select list
RefFragments == { <<" ", "u", ".", "b">>, <<" ", "t", ".", "a">> }

\* the FROM and JOIN clauses: a table alone, with an alias, with AS and an alias
ClauseFragments ==
    { <<" ", "F", "R", "O", "M", " ", "x">>,
      <<" ", "F", "R", "O", "M", " ", "x", " ", "t">>,
      <<" ", "f", "r", "o", "m", " ", "x", " ", "A", "S", " ", "T">>,
      <<" ", "J", "O", "I", "N", " ", "y">>,
      <<" ", "J", "O", "I", "N", " ", "y", " ", "u">>,
      <<" ", "J", "o", "i", "n", " ", "y", " ", "a", "s", " ", "u">> }

\* SELECT, at most two dotted references and at most n clauses
AliasTexts(n) ==
    { kwSELECT \o r \o c : r \in Bodies(RefFragments, 2), c \in Bodies(ClauseFragments, n) }

AInit ==
    /\ apc = "input"
    /\ atext \in AliasTexts(MaxAliasFrags)
    /\ aliases = {}
    /\ XIdle
    /\ CIdle
    /\ PIdle
    /\ FIdle
    /\ LIdle
    /\ KIdle
    /\ TIdle
    /\ UIdle

\* db.py 126-155
CheckAliasesRun ==
    /\ apc = "input"
    /\ aliases' = check_aliases(atext)
    /\ apc' = "checked"
    /\ UNCHANGED <<atext, xvars, cvars, pvars, fvars, lvars, kvars, tvars, uvars>>

ANext == CheckAliasesRun

SpecAliases == AInit /\ [][ANext]_vars

(***************************************************************************)
(* Concurrent process_ai_query runs.  The locals of a run are its own; the *)
(* module-level vocabulary tables and the standard output are shared.      *)
(***************************************************************************)
RunIds == 1 .. MaxRuns

\* the module-level lists every run reads
VocabularyTables ==
    [CONVERSATIONAL_PHRASES |-> CONVERSATIONAL_PHRASES, BUSINESS_QUESTIONS |-> BUSINESS_QUESTIONS]

\* is_conversational_query, reading the lists as they are when it runs
is_conversational_now(vocabulary, text) ==
    LET question_lower == lower(text)
        is_business == contains_any(question_lower, vocabulary.BUSINESS_QUESTIONS)
        is_conversational == contains_any(question_lower, vocabulary.CONVERSATIONAL_PHRASES)
    IN  IF is_business THEN FALSE ELSE is_conversational

\* the questions of the concurrent runs
RunQuestions ==
    { <<"h", "e", "l", "l", "o">>,
      <<"h", "i", ",", " ", "t", "o", "t", "a", "l", " ", "r", "e", "v", "e", "n", "u", "e", "?">> }

\* the texts query_ollama returns to the concurrent runs: a fenced statement,
\* a statement with an alias no clause declares, and prose
RunTexts ==
    { <<Backtick, Backtick, Backtick, "s", "q", "l", "\n">> \o kwSELECT \o
        <<" ", "t", ".", "a", " ", "F", "R", "O", "M", " ", "x", " ", "t", "\n",
          Backtick, Backtick, Backtick>>,
      kwSELECT \o <<" ", "u", ".", "b", " ", "F", "R", "O", "M", " ", "x">>,
      <<"I", " ", "c", "a", "n", "n", "o", "t">> }

RunOllamaErrors == { "Connection error: Could not connect to Ollama service" }

\* the results execute_query returns to the concurrent runs
RunResults ==
    { << <<DecValue("1500.00")>> >>, << TransactionRow(4) >> }

\* the locals of a run before its first statement
NewRun(text) ==
    [pc |-> "start", question |-> text, ai_response |-> <<>>, error |-> "",
     generated_sql |-> <<>>, undeclared_aliases |-> {}, result |-> <<>>,
     db_error |-> "", returned |-> <<>>]

KInit ==
    /\ tables = VocabularyTables
    /\ stdout = {}
    /\ runs \in [RunIds -> { NewRun(q) : q \in RunQuestions }]
    /\ XIdle /\ CIdle /\ PIdle /\ FIdle /\ LIdle /\ AIdle /\ TIdle /\ UIdle

OtherThanRuns == <<xvars, cvars, pvars, fvars, lvars, avars, tvars, uvars>>

\* a run ends by returning an envelope
Returning(r, envelope) ==
    [runs EXCEPT ![r].pc = "done", ![r].returned = <<envelope>>]

\* variant of RunClassify: the phrases are taken out of the shared table once
\* a question has matched them
RunClassifyConsuming(r) ==
    /\ runs[r].pc = "start"
    /\ IF is_conversational_now(tables, runs[r].question)
       THEN /\ runs' = Returning(r,
                   [success |-> TRUE, question |-> runs[r].question,
                    sql |-> NA_CONVERSATIONAL,
                    result |-> get_conversational_response(runs[r].question)])
            /\ tables' = [tables EXCEPT !.CONVERSATIONAL_PHRASES = <<>>]
       ELSE /\ runs' = [runs EXCEPT ![r].pc = "classified"]
            /\ UNCHANGED tables
    /\ UNCHANGED <<stdout, OtherThanRuns>>

\* lines 309-316
RunClassify(r) ==
    /\ runs[r].pc = "start"
    /\ IF is_conversational_now(tables, runs[r].question)
       THEN runs' = Returning(r,
                [success |-> TRUE, question |-> runs[r].question,
                 sql |-> NA_CONVERSATIONAL,
                 result |-> get_conversational_response(runs[r].question)])
       ELSE runs' = [runs EXCEPT ![r].pc = "classified"]
    /\ UNCHANGED <<tables, stdout, OtherThanRuns>>

\* lines 319-327, the call failing
RunQueryOllamaFails(r) ==
    /\ runs[r].pc = "classified"
    /\ \E e \in RunOllamaErrors :
           runs' = [Returning(r, [success |-> FALSE, error |-> <<CONNECT_TROUBLE, e, ")">>])
                        EXCEPT ![r].error = e]
    /\ stdout' = stdout \cup { <<r, "Sending question to Mistral">> }
    /\ UNCHANGED <<tables, OtherThanRuns>>

\* lines 319-323, the call returning a text
RunQueryOllamaReturns(r) ==
    /\ runs[r].pc = "classified"
    /\ \E text \in RunTexts :
           runs' = [runs EXCEPT ![r].pc = "generated", ![r].ai_response = text]
    /\ stdout' = stdout \cup { <<r, "Sending question to Mistral">> }
    /\ UNCHANGED <<tables, OtherThanRuns>>

\* lines 330-337
RunExtractSql(r) ==
    /\ runs[r].pc = "generated"
    /\ LET generated_sql_r == extract_sql(runs[r].ai_response)
       IN  runs' = IF generated_sql_r = <<>>
                   THEN Returning(r, [success |-> FALSE, error |-> <<NOT_UNDERSTOOD>>])
                   ELSE [runs EXCEPT ![r].pc = "extracted",
                                     ![r].generated_sql = generated_sql_r]
    /\ stdout' = stdout \cup { <<r, "Generated SQL">> }
    /\ UNCHANGED <<tables, OtherThanRuns>>

\* lines 340-342
RunCheckAliases(r) ==
    /\ runs[r].pc = "extracted"
    /\ runs' = [runs EXCEPT ![r].pc = "validated",
                            ![r].undeclared_aliases = check_aliases(runs[r].generated_sql)]
    /\ stdout' = IF check_aliases(runs[r].generated_sql) # {}
                 THEN stdout \cup { <<r, "Warning: Undeclared alias(es)">> }
                 ELSE stdout
    /\ UNCHANGED <<tables, OtherThanRuns>>

\* lines 345-352, the store rejecting the statement
RunExecuteQueryFails(r) ==
    /\ runs[r].pc = "validated"
    /\ \E e \in DbErrors :
           runs' = [Returning(r, [success |-> FALSE, error |-> <<NOT_UNDERSTOOD>>])
                        EXCEPT ![r].db_error = e]
    /\ stdout' = stdout \cup { <<r, "MySQL Error">>, <<r, "Generated SQL">> }
    /\ UNCHANGED <<tables, OtherThanRuns>>

\* lines 345-346, the store returning rows
RunExecuteQueryReturns(r) ==
    /\ runs[r].pc = "validated"
    /\ \E rows \in RunResults :
           runs' = [runs EXCEPT ![r].pc = "executed", ![r].result = rows]
    /\ UNCHANGED <<tables, stdout, OtherThanRuns>>

\* lines 355-363; an exception of the formatter leaves process_ai_query
RunFormatResponse(r) ==
    /\ runs[r].pc = "executed"
    /\ runs' = IF format_raises(runs[r].question, runs[r].result)
               THEN [runs EXCEPT ![r].pc = "raised"]
               ELSE Returning(r,
                        [success |-> TRUE, question |-> runs[r].question,
                         sql |-> runs[r].generated_sql,
                         result |-> format_natural_response(runs[r].question, runs[r].result)])
    /\ UNCHANGED <<tables, stdout, OtherThanRuns>>

KNext ==
    \E r \in RunIds :
        \/ RunClassify(r)
        \/ RunQueryOllamaFails(r)
        \/ RunQueryOllamaReturns(r)
        \/ RunExtractSql(r)
        \/ RunCheckAliases(r)
        \/ RunExecuteQueryFails(r)
        \/ RunExecuteQueryReturns(r)
        \/ RunFormatResponse(r)

SpecConcurrent == KInit /\ [][KNext]_vars

(***************************************************************************)
(* Concurrent insert_user and register_user calls on the users table.      *)
(* Every call opens its own connection; the SELECT and the INSERT/UPDATE   *)
(* are two round trips to the store, and other calls run between them.     *)
(***************************************************************************)
Callers == 1 .. MaxCallers

Phones == { "555-0100", "555-0199" }

UserFunctions == { "insert_user", "register_user" }

\* a call before its first statement
NewCall(function, phone) ==
    [function |-> function, phone |-> phone, pc |-> "called",
     existing_user |-> 0, returned |-> <<>>]

\* the rows a SELECT ... WHERE phone = %s finds, by position
rows_of_phone(table, phone) ==
    { i \in 1 .. Len(table) : table[i].phone = phone }

\* cursor.fetchone() on SELECT id: the id of the first row found, 0 for None
fetch_id(table, phone) ==
    IF rows_of_phone(table, phone) = {} THEN 0
    ELSE table[CHOOSE i \in rows_of_phone(table, phone) :
                   \A j \in rows_of_phone(table, phone) : i <= j].id

\* UPDATE users SET name, email WHERE phone
update_rows(table, phone, name, email) ==
    [i \in 1 .. Len(table) |->
        IF table[i].phone = phone
        THEN [table[i] EXCEPT !.name = name, !.email = email]
        ELSE table[i]]

\* INSERT INTO users: the row gets the next value of the id counter
insert_row(table, name, phone, email) ==
    Append(table, [id |-> Len(table) + 1, name |-> name, phone |-> phone, email |-> email])

\* the store refuses the INSERT: a row of the phone exists and phone is unique
insert_refused(table, phone) ==
    unique_phone /\ rows_of_phone(table, phone) /= {}

UInit ==
    /\ users \in { <<>>, <<[id |-> 1, name |-> "Ann", phone |-> "555-0100", email |-> ""]>> }
    /\ ucalls \in [Callers -> { NewCall(f, p) : f \in UserFunctions, p \in Phones }]
    /\ unique_phone \in BOOLEAN
    /\ XIdle /\ CIdle /\ PIdle /\ FIdle /\ LIdle /\ AIdle /\ KIdle /\ TIdle

\* both functions: SELECT id FROM users WHERE phone = %s, then fetchone
SelectExisting(c) ==
    /\ ucalls[c].pc = "called"
    /\ ucalls' = [ucalls EXCEPT ![c].pc = "selected",
                                ![c].existing_user = fetch_id(users, ucalls[c].phone)]
    /\ UNCHANGED <<users, unique_phone, xvars, cvars, pvars, fvars, lvars, avars, kvars, tvars>>

\* insert_user, a row was found: UPDATE, commit, return its id
InsertUserUpdates(c) ==
    /\ ucalls[c].pc = "selected"
    /\ ucalls[c].function = "insert_user"
    /\ ucalls[c].existing_user /= 0
    /\ users' = update_rows(users, ucalls[c].phone, "Bob", "bob@example.com")
    /\ ucalls' = [ucalls EXCEPT ![c].pc = "returned",
                                ![c].returned = <<ucalls[c].existing_user, "">>]
    /\ UNCHANGED <<unique_phone, xvars, cvars, pvars, fvars, lvars, avars, kvars, tvars>>

\* register_user, a row was found: the call returns without writing
RegisterUserExists(c) ==
    /\ ucalls[c].pc = "selected"
    /\ ucalls[c].function = "register_user"
    /\ ucalls[c].existing_user /= 0
    /\ ucalls' = [ucalls EXCEPT ![c].pc = "returned",
                                ![c].returned = <<0, "User with this phone number already exists">>]
    /\ UNCHANGED <<users, unique_phone, xvars, cvars, pvars, fvars, lvars, avars, kvars, tvars>>

\* either function, no row was found: INSERT, commit, return lastrowid
InsertNewUser(c) ==
    /\ ucalls[c].pc = "selected"
    /\ ucalls[c].existing_user = 0
    /\ ~ insert_refused(users, ucalls[c].phone)
    /\ users' = insert_row(users, "Bob", ucalls[c].phone,
                           IF ucalls[c].function = "insert_user" THEN "bob@example.com" ELSE "")
    /\ ucalls' = [ucalls EXCEPT ![c].pc = "returned",
                                ![c].returned = <<Len(users) + 1, "">>]
    /\ UNCHANGED <<unique_phone, xvars, cvars, pvars, fvars, lvars, avars, kvars, tvars>>

\* either function, no row was found but the store refuses the INSERT:
\* mysql.connector.Error is caught and reported
InsertNewUserFails(c) ==
    /\ ucalls[c].pc = "selected"
    /\ ucalls[c].existing_user = 0
    /\ insert_refused(users, ucalls[c].phone)
    /\ ucalls' = [ucalls EXCEPT ![c].pc = "returned",
                                ![c].returned = <<0, "Database error">>]
    /\ UNCHANGED <<users, unique_phone, xvars, cvars, pvars, fvars, lvars, avars, kvars, tvars>>

UNext ==
    \E c \in Callers :
        \/ SelectExisting(c)
        \/ InsertUserUpdates(c)
        \/ RegisterUserExists(c)
        \/ InsertNewUser(c)
        \/ InsertNewUserFails(c)

SpecUsers == UInit /\ [][UNext]_vars

(***************************************************************************)
(* process_transaction: validation, then insert_user, insert_transaction,  *)
(* insert_order_items and insert_add_ons, each on a connection of its own. *)
(***************************************************************************)
\* DB_CONFIG['autocommit']: every executed statement is persisted at once
autocommit == TRUE

\* a mapping without one of its keys
without_key(dict, key) == [k \in DOMAIN dict \ {key} |-> dict[k]]

\* str.isdigit on a text
isdigit(text) ==
    /\ Len(text) > 0
    /\ \A i \in 1 .. Len(text) :
           text[i] \in {"0", "1", "2", "3", "4", "5", "6", "7", "8", "9"}

\* phone.replace('-', '').replace(' ', '').replace('(', '').replace(')', '')
RECURSIVE strip_phone(_)
strip_phone(phone) ==
    IF phone = <<>> THEN <<>>
    ELSE IF Head(phone) \in {"-", " ", "(", ")"} THEN strip_phone(Tail(phone))
    ELSE <<Head(phone)>> \o strip_phone(Tail(phone))

\* the error message of validate_user_data, "" when the data is valid
validate_user_data(user_data) ==
    IF "name" \notin DOMAIN user_data \/ user_data.name = "" THEN "Missing required field: name"
    ELSE IF "phone" \notin DOMAIN user_data \/ user_data.phone = <<>> THEN "Missing required field: phone"
    ELSE IF ~ isdigit(strip_phone(user_data.phone)) THEN "Invalid phone number format"
    ELSE ""

\* the error message of validate_order_data, "" when the data is valid
validate_order_data(order_data) ==
    IF "items" \notin DOMAIN order_data THEN "Missing required field: items"
    ELSE IF "total" \notin DOMAIN order_data THEN "Missing required field: total"
    ELSE IF "orderType" \notin DOMAIN order_data THEN "Missing required field: orderType"
    ELSE IF order_data.items = <<>> THEN "Order must contain at least one item"
    ELSE IF ~ order_data.total.is_number THEN "Invalid order total"
    ELSE IF order_data.total.value <= 0 THEN "Order total must be greater than 0"
    ELSE IF order_data.orderType \notin {"Dine In", "Pick Up"} THEN "Invalid order type"
    ELSE IF /\ order_data.orderType = "Dine In"
            /\ ("seatNumber" \notin DOMAIN order_data \/ order_data.seatNumber = "")
         THEN "Seat number is required for Dine In orders"
    ELSE ""

\* datetime.fromisoformat(...).strftime(...): the formatted time, "" for ValueError
formatted_time(payment_time) ==
    IF payment_time = "2024-05-01T12:30:00Z" THEN "2024-05-01 12:30:00" ELSE ""

\* the position of the first entry whose item['name'] raises KeyError, 0 if none
first_key_error(items) ==
    IF \A i \in 1 .. Len(items) : "name" \in DOMAIN items[i] THEN 0
    ELSE CHOOSE i \in 1 .. Len(items) :
             /\ "name" \notin DOMAIN items[i]
             /\ \A j \in 1 .. i - 1 : "name" \in DOMAIN items[j]

\* the loop of INSERTs over the first n entries
RECURSIVE insert_items(_, _, _, _)
insert_items(table, transaction_id, items, n) ==
    IF n = 0 THEN table
    ELSE Append(insert_items(table, transaction_id, items, n - 1),
                [id |-> Len(table) + n, transaction_id |-> transaction_id,
                 name |-> items[n].name, quantity |-> items[n].quantity,
                 price |-> items[n].price])

\* the rows left in a table when the connection is dropped after n INSERTs
\* without commit
left_uncommitted(table, transaction_id, items, n) ==
    IF autocommit THEN insert_items(table, transaction_id, items, n) ELSE table

\* 'addOns' in order_data and order_data['addOns']
has_add_ons(order_data) ==
    "addOns" \in DOMAIN order_data /\ order_data.addOns /= <<>>

Item == [name |-> "Burger", quantity |-> 1, price |-> 5]

ItemLists(n) ==
    UNION { [1 .. k -> { Item, without_key(Item, "name") }] : k \in 0 .. n }

ValidUser == [name |-> "Bob", phone |-> <<"5", "5", "5", "-", "0", "1">>, email |-> "bob@example.com"]

UserInputs ==
    { ValidUser,
      without_key(ValidUser, "name"),
      [ValidUser EXCEPT !.phone = <<>>],
      [ValidUser EXCEPT !.phone = <<"5", "5", "5", "x">>],
      [ValidUser EXCEPT !.phone = <<"(", ")">>] }

PositiveTotal == [is_number |-> TRUE, value |-> 5]

BaseOrder(items, addOns, orderType) ==
    [items |-> items, total |-> PositiveTotal, orderType |-> orderType,
     seatNumber |-> "A1", addOns |-> addOns]

ValidOrders(n) ==
    { BaseOrder(items, addOns, orderType) :
          items \in ItemLists(n) \ {<<>>}, addOns \in ItemLists(n),
          orderType \in {"Dine In", "Pick Up"} }
    \cup { without_key(BaseOrder(<<Item>>, <<>>, "Pick Up"), k) : k \in {"addOns", "seatNumber"} }

InvalidOrders ==
    { without_key(BaseOrder(<<Item>>, <<>>, "Pick Up"), k) : k \in {"items", "total", "orderType"} }
    \cup { BaseOrder(<<>>, <<>>, "Pick Up"),
           BaseOrder(<<Item>>, <<>>, "Delivery"),
           [BaseOrder(<<Item>>, <<>>, "Pick Up") EXCEPT !.total = [is_number |-> FALSE, value |-> 0]],
           [BaseOrder(<<Item>>, <<>>, "Pick Up") EXCEPT !.total = [is_number |-> TRUE, value |-> 0]],
           [BaseOrder(<<Item>>, <<>>, "Dine In") EXCEPT !.seatNumber = ""],
           without_key(BaseOrder(<<Item>>, <<>>, "Dine In"), "seatNumber") }

PaymentTimes == { "2024-05-01T12:30:00Z", "not-a-date" }

TransactionInputs(n) ==
    [user : UserInputs, order : ValidOrders(n) \cup InvalidOrders, paymentTime : PaymentTimes]

EmptyStore == [users |-> <<>>, transactions |-> <<>>, order_items |-> <<>>, add_ons |-> <<>>]

Failure(error_msg) == [success |-> FALSE, error |-> error_msg]

TInit ==
    /\ tpc = "called"
    /\ tdata \in TransactionInputs(MaxItems)
    /\ store \in { EmptyStore,
                   [EmptyStore EXCEPT !.users =
                        <<[id |-> 1, name |-> "Ann", phone |-> ValidUser.phone, email |-> ""]>>] }
    /\ tbefore = store
    /\ tids = [user_id |-> 0, transaction_id |-> 0]
    /\ treturned = <<>>
    /\ XIdle /\ CIdle /\ PIdle /\ FIdle /\ LIdle /\ AIdle /\ KIdle /\ UIdle

\* process_transaction returns a failure dictionary
ReturnFailure(error_msg) ==
    /\ treturned' = Append(treturned, Failure(error_msg))
    /\ tpc' = "returned"

OtherThanTransaction == <<xvars, cvars, pvars, fvars, lvars, avars, kvars, uvars>>

\* validate_user_data and its early return
ValidateUser ==
    /\ tpc = "called"
    /\ IF validate_user_data(tdata.user) /= ""
       THEN ReturnFailure(validate_user_data(tdata.user))
       ELSE tpc' = "user_validated" /\ UNCHANGED treturned
    /\ UNCHANGED <<tdata, store, tids, tbefore, OtherThanTransaction>>

\* validate_order_data and its early return
ValidateOrder ==
    /\ tpc = "user_validated"
    /\ IF validate_order_data(tdata.order) /= ""
       THEN ReturnFailure(validate_order_data(tdata.order))
       ELSE tpc' = "order_validated" /\ UNCHANGED treturned
    /\ UNCHANGED <<tdata, store, tids, tbefore, OtherThanTransaction>>

\* insert_user: SELECT, then UPDATE or INSERT, commit
InsertUser ==
    /\ tpc = "order_validated"
    /\ LET existing_user == fetch_id(store.users, tdata.user.phone)
       IN  IF existing_user /= 0
           THEN /\ store' = [store EXCEPT !.users =
                                update_rows(store.users, tdata.user.phone,
                                            tdata.user.name, tdata.user.email)]
                /\ tids' = [tids EXCEPT !.user_id = existing_user]
           ELSE /\ store' = [store EXCEPT !.users =
                                insert_row(store.users, tdata.user.name,
                                           tdata.user.phone, tdata.user.email)]
                /\ tids' = [tids EXCEPT !.user_id = Len(store.users) + 1]
    /\ tpc' = "user_inserted"
    /\ UNCHANGED <<tdata, treturned, tbefore, OtherThanTransaction>>

\* insert_user: mysql.connector.Error before anything is written
InsertUserFails ==
    /\ tpc = "order_validated"
    /\ ReturnFailure("Database error")
    /\ UNCHANGED <<tdata, store, tids, tbefore, OtherThanTransaction>>

\* insert_transaction: the payment time does not parse
InsertTransactionBadTime ==
    /\ tpc = "user_inserted"
    /\ formatted_time(tdata.paymentTime) = ""
    /\ ReturnFailure("Invalid payment time format")
    /\ UNCHANGED <<tdata, store, tids, tbefore, OtherThanTransaction>>

\* insert_transaction: INSERT, commit
InsertTransaction ==
    /\ tpc = "user_inserted"
    /\ formatted_time(tdata.paymentTime) /= ""
    /\ store' = [store EXCEPT !.transactions =
                     Append(@, [id |-> Len(@) + 1, user_id |-> tids.user_id,
                                total |-> tdata.order.total.value,
                                payment_time |-> formatted_time(tdata.paymentTime),
                                order_type |-> tdata.order.orderType,
                                seat_number |-> IF "seatNumber" \in DOMAIN tdata.order
                                                THEN tdata.order.seatNumber ELSE ""])]
    /\ tids' = [tids EXCEPT !.transaction_id = Len(store.transactions) + 1]
    /\ tpc' = "transaction_inserted"
    /\ UNCHANGED <<tdata, treturned, tbefore, OtherThanTransaction>>

\* insert_transaction: mysql.connector.Error before anything is written
InsertTransactionFails ==
    /\ tpc = "user_inserted"
    /\ formatted_time(tdata.paymentTime) /= ""
    /\ ReturnFailure("Database error")
    /\ UNCHANGED <<tdata, store, tids, tbefore, OtherThanTransaction>>

\* insert_order_items: every INSERT of the loop, commit
InsertOrderItems ==
    /\ tpc = "transaction_inserted"
    /\ first_key_error(tdata.order.items) = 0
    /\ store' = [store EXCEPT !.order_items =
                     insert_items(@, tids.transaction_id, tdata.order.items,
                                  Len(tdata.order.items))]
    /\ tpc' = "items_inserted"
    /\ UNCHANGED <<tdata, tids, treturned, tbefore, OtherThanTransaction>>

\* insert_order_items: an entry without 'name' raises KeyError, which only
\* the except clause of process_transaction catches
InsertOrderItemsKeyError ==
    /\ tpc = "transaction_inserted"
    /\ first_key_error(tdata.order.items) /= 0
    /\ store' = [store EXCEPT !.order_items =
                     left_uncommitted(@, tids.transaction_id, tdata.order.items,
                                      first_key_error(tdata.order.items) - 1)]
    /\ ReturnFailure("Unexpected error")
    /\ UNCHANGED <<tdata, tids, tbefore, OtherThanTransaction>>

\* insert_order_items: mysql.connector.Error at the k-th INSERT
InsertOrderItemsFails ==
    /\ tpc = "transaction_inserted"
    /\ \E k \in 1 .. Len(tdata.order.items) :
           /\ first_key_error(tdata.order.items) \notin 1 .. k
           /\ store' = [store EXCEPT !.order_items =
                            left_uncommitted(@, tids.transaction_id, tdata.order.items, k - 1)]
    /\ ReturnFailure("Database error")
    /\ UNCHANGED <<tdata, tids, tbefore, OtherThanTransaction>>

\* insert_add_ons: every INSERT of the loop, commit
InsertAddOns ==
    /\ tpc = "items_inserted"
    /\ has_add_ons(tdata.order)
    /\ first_key_error(tdata.order.addOns) = 0
    /\ store' = [store EXCEPT !.add_ons =
                     insert_items(@, tids.transaction_id, tdata.order.addOns,
                                  Len(tdata.order.addOns))]
    /\ tpc' = "add_ons_inserted"
    /\ UNCHANGED <<tdata, tids, treturned, tbefore, OtherThanTransaction>>

\* insert_add_ons: an entry without 'name' raises KeyError
InsertAddOnsKeyError ==
    /\ tpc = "items_inserted"
    /\ has_add_ons(tdata.order)
    /\ first_key_error(tdata.order.addOns) /= 0
    /\ store' = [store EXCEPT !.add_ons =
                     left_uncommitted(@, tids.transaction_id, tdata.order.addOns,
                                      first_key_error(tdata.order.addOns) - 1)]
    /\ ReturnFailure("Unexpected error")
    /\ UNCHANGED <<tdata, tids, tbefore, OtherThanTransaction>>

\* insert_add_ons: mysql.connector.Error at the k-th INSERT
InsertAddOnsFails ==
    /\ tpc = "items_inserted"
    /\ has_add_ons(tdata.order)
    /\ \E k \in 1 .. Len(tdata.order.addOns) :
           /\ first_key_error(tdata.order.addOns) \notin 1 .. k
           /\ store' = [store EXCEPT !.add_ons =
                            left_uncommitted(@, tids.transaction_id, tdata.order.addOns, k - 1)]
    /\ ReturnFailure("Database error")
    /\ UNCHANGED <<tdata, tids, tbefore, OtherThanTransaction>>

\* process_transaction returns the success dictionary
ReturnSuccess ==
    /\ \/ tpc = "add_ons_inserted"
       \/ tpc = "items_inserted" /\ ~ has_add_ons(tdata.order)
    /\ treturned' = Append(treturned,
                           [success |-> TRUE, message |-> "Transaction processed successfully",
                            transaction_id |-> tids.transaction_id, user_id |-> tids.user_id])
    /\ tpc' = "returned"
    /\ UNCHANGED <<tdata, store, tids, tbefore, OtherThanTransaction>>

TNext ==
    \/ ValidateUser
    \/ ValidateOrder
    \/ InsertUser
    \/ InsertUserFails
    \/ InsertTransactionBadTime
    \/ InsertTransaction
    \/ InsertTransactionFails
    \/ InsertOrderItems
    \/ InsertOrderItemsKeyError
    \/ InsertOrderItemsFails
    \/ InsertAddOns
    \/ InsertAddOnsKeyError
    \/ InsertAddOnsFails
    \/ ReturnSuccess

SpecTransaction == TInit /\ [][TNext]_vars

(***************************************************************************)
(* Vocabulary of the properties of the extractor.                          *)
(***************************************************************************)
\* raw_output holds a fenced block that the extractor recognises
Fenced(text) == fence_match(text) # <<>>

\* some line of a non-empty text is empty or all whitespace
HasBlankLine(text) ==
    /\ text # <<>>
    /\ \E k \in 1..Len(SplitOn(text, "\n", 1)) : strip(SplitOn(text, "\n", 1)[k]) = <<>>

\* position of the first non-whitespace character of a line, 0 when none
FirstInk(line) ==
    LET ink == {i \in 1..Len(line) : line[i] \notin Whitespace}
    IN  IF ink = {} THEN 0 ELSE SetMin(ink)

\* no line of the text begins, after leading whitespace and in any case, with
\* SELECT or WITH
NoStatementLine(text) ==
    \A k \in 1..Len(SplitOn(text, "\n", 1)) :
        LET line == SplitOn(text, "\n", 1)[k]
            up == upper(line)
        IN  ~MatchAt(up, kwSELECT, FirstInk(line)) /\ ~MatchAt(up, kwWITH, FirstInk(line))

\* the text before the first ";" of a text that holds one
BeforeFirstSemicolon(text) == SubSeq(text, 1, Find(text, <<";">>, 1) - 1)

\* a WITH block whose parenthesised body is closed and followed by no SELECT
IsBareWith(text) ==
    LET open == Find(text, <<"(">>, 1)
        close == Find(text, <<")">>, 1)
    IN  /\ startswith(upper(text), kwWITH)
        /\ open # 0
        /\ close > open
        /\ Find(upper(text), kwSELECT, close + 1) = 0

\* WITH occurs in the text as a word of its own, in any case
HasWithKeyword(text) ==
    \E i \in 1..Len(text) :
        /\ MatchAt(upper(text), kwWITH, i)
        /\ (i = 1 \/ text[i - 1] \notin WordChars)
        /\ (i + 4 > Len(text) \/ text[i + 4] \notin WordChars)

(***************************************************************************)
(* Properties of extract_sql, checked under SpecExtract.                   *)
(***************************************************************************)
\* C4 as stated: extract_sql is idempotent, extract_sql(extract_sql(x)) equals
\* extract_sql(x) for every raw text x, fenced or not.
C4_Idempotent == xpc = "reextracted" => again = sql

\* C4 as amended: extract_sql(extract_sql(x)) equals extract_sql(x) whenever
\* extract_sql(x) holds no blank line, and extract_sql(x) holds no blank line
\* for any x without a recognised fenced block.
C4_IdempotentWithoutBlankLine ==
    xpc = "reextracted" =>
        /\ ~HasBlankLine(sql) => again = sql
        /\ ~Fenced(raw_output) => ~HasBlankLine(sql)

\* C4 witness: an unfenced text that the clean-up changed and whose non-empty
\* result the second extraction returns unchanged.
C4_Witness ==
    /\ xpc = "reextracted"
    /\ ~Fenced(raw_output)
    /\ sql # <<>>
    /\ sql # candidate
    /\ again = sql

\* C5 as stated: a candidate that is a WITH block with no SELECT after the
\* closing parenthesis of its body makes extract_sql return the empty string.
C5_BareWithRejected == (xpc # "input" /\ IsBareWith(candidate)) => sql = <<>>

\* C6 as stated: a non-empty result of extract_sql holds no WITH keyword, in
\* any case.
C6_NoWithInResult == (xpc # "input" /\ sql # <<>>) => ~HasWithKeyword(sql)

\* C7 as stated: a raw text in which no line begins with SELECT or WITH makes
\* extract_sql return the empty string.
C7_NoStatementLineEmpty == (xpc # "input" /\ NoStatementLine(raw_output)) => sql = <<>>

\* C7 as amended: a raw text without a recognised fenced block in which no
\* line begins with SELECT or WITH makes extract_sql return the empty string.
C7_UnfencedNoStatementLineEmpty ==
    (xpc # "input" /\ ~Fenced(raw_output) /\ NoStatementLine(raw_output)) => sql = <<>>

\* C7 witness: an unfenced text that holds SELECT, but at the start of no
\* line, has been extracted to the empty string.
C7_Witness ==
    /\ xpc = "extracted"
    /\ ~Fenced(raw_output)
    /\ NoStatementLine(raw_output)
    /\ Contains(upper(raw_output), kwSELECT)
    /\ sql = <<>>

\* C8: when the candidate holds ";", the result of extract_sql is a piece of
\* the candidate text that precedes the first ";", so nothing located after
\* that ";" is in the result.
C8_NothingAfterSemicolon ==
    (xpc # "input" /\ Contains(candidate, <<";">>)) =>
        (sql = <<>> \/ Contains(BeforeFirstSemicolon(candidate), sql))

\* C8 witness: a candidate with text after its first ";" has been extracted to
\* the non-empty text before that ";".
C8_Witness ==
    /\ xpc = "extracted"
    /\ Contains(candidate, <<";">>)
    /\ Find(candidate, <<";">>, 1) < Len(candidate)
    /\ sql # <<>>
    /\ sql = strip(BeforeFirstSemicolon(candidate))

(***************************************************************************)
(* Properties of is_conversational_query, checked under SpecClassify.      *)
(***************************************************************************)
HasBusinessTerm(text) == contains_any(lower(text), BUSINESS_QUESTIONS)

HasConversationalPhrase(text) == contains_any(lower(text), CONVERSATIONAL_PHRASES)

\* C2: a question whose lower-cased text holds a business term is classified
\* Business (is_conversational_query returns False), with or without a
\* conversational phrase in it.
C2_BusinessTermWins == (cpc # "input" /\ HasBusinessTerm(cquestion)) => conversational = FALSE

\* C2 witness: a question with a business term and a conversational phrase
\* has been classified Business.
C2_Witness ==
    /\ cpc = "classified"
    /\ HasBusinessTerm(cquestion)
    /\ HasConversationalPhrase(cquestion)
    /\ conversational = FALSE

(***************************************************************************)
(* Properties of process_ai_query, checked under Spec.                     *)
(***************************************************************************)
IsPrefix(a, b) == Len(a) <= Len(b) /\ SubSeq(b, 1, Len(a)) = a

\* the calls of a complete run of the business branch, in order
StageOrder ==
    <<"is_conversational_query", "create_ai_prompt", "query_ollama", "extract_sql",
      "check_aliases", "execute_query", "format_query_results", "format_natural_response">>

Called(name) == \E k \in 1..Len(calls) : calls[k] = name

Finished == pc \in {"done", "raised"}

IsSuccessEnvelope(envelope) ==
    /\ DOMAIN envelope = {"success", "question", "sql", "result"}
    /\ envelope.success = TRUE

IsFailureEnvelope(envelope) ==
    /\ DOMAIN envelope = {"success", "error"}
    /\ envelope.success = FALSE
    /\ envelope.error # <<>>

\* the run has ended by returning one failure envelope
EndedInFailure ==
    pc \in {"done", "responded"} /\ Len(returned) = 1 /\ IsFailureEnvelope(returned[1])

C3_OneWellFormedEnvelope ==
    Finished =>
        /\ Len(returned) = 1
        /\ \/ IsSuccessEnvelope(returned[1]) /\ returned[1].question = question
           \/ IsFailureEnvelope(returned[1])

\* the envelope of a run that executed statement on the store, from the
\* question, the statement and the outcome of the store alone
EnvelopeOfExecution(q, statement, store_error, rows) ==
    IF store_error # "" THEN [success |-> FALSE, error |-> <<NOT_UNDERSTOOD>>]
    ELSE [success |-> TRUE, question |-> q, sql |-> statement,
          result |-> format_natural_response(q, rows)]

\* C9: the set check_aliases returns is advisory: a finished run whose
\* extracted statement is not empty has called execute_query with exactly that
\* statement, and the envelope it returned is a function of the question, the
\* statement and the outcome of the store, the same whatever the set holds.
C9_AliasesAdvisory ==
    (Finished /\ generated_sql # <<>>) =>
        /\ exec_args = <<generated_sql>>
        /\ pc = "done" => returned = <<EnvelopeOfExecution(question, generated_sql, db_error, result)>>

\* C9 witness: a run that found an undeclared alias has executed the statement
\* and returned a success envelope.
C9_Witness ==
    /\ pc = "done"
    /\ undeclared_aliases # {}
    /\ exec_args = <<generated_sql>>
    /\ Len(returned) = 1
    /\ IsSuccessEnvelope(returned[1])

\* C10: on the business branch the stages are called in the order prompt,
\* generate, extract, check aliases, execute, format, each at most once; a
\* failed generation, an empty extraction and a failed execution each end the
\* run in a failure envelope with no later stage called.
C10_LinearNoRetry ==
    /\ ~Called("get_conversational_response") => IsPrefix(calls, StageOrder)
    /\ Len(exec_args) <= 1
    /\ error # "" => (EndedInFailure /\ calls = SubSeq(StageOrder, 1, 3))
    /\ (Called("extract_sql") /\ generated_sql = <<>>) =>
           (EndedInFailure /\ calls = SubSeq(StageOrder, 1, 4))
    /\ db_error # "" => (EndedInFailure /\ calls = SubSeq(StageOrder, 1, 6))

\* C10 witness: a run whose execution failed has ended in a failure envelope
\* right after the call of execute_query.
C10_Witness ==
    /\ db_error # ""
    /\ pc = "done"
    /\ calls = SubSeq(StageOrder, 1, 6)
    /\ Len(exec_args) = 1

\* C11: a run whose question is classified Conversational returns one success
\* envelope with sql 'N/A (Conversational query)' and the canned response of
\* get_conversational_response as result, and calls neither create_ai_prompt,
\* query_ollama, extract_sql nor execute_query; for 'hello' the result is the
\* fixed greeting sentence.
C11_ConversationalShortCircuit ==
    (Called("is_conversational_query") /\ is_conversational_query(question)) =>
        /\ returned = << [success |-> TRUE, question |-> question, sql |-> NA_CONVERSATIONAL,
                          result |-> get_conversational_response(question)] >>
        /\ calls = <<"is_conversational_query", "get_conversational_response">>
        /\ prompt = <<>> /\ ai_response = <<>> /\ generated_sql = <<>> /\ exec_args = <<>>
        /\ question = <<"h", "e", "l", "l", "o">> => returned[1].result = GREETING

\* C11 witness: the run of 'hello' has returned the greeting with the N/A sql
\* after the classifier and the responder alone.
C11_Witness ==
    /\ pc = "done"
    /\ question = <<"h", "e", "l", "l", "o">>
    /\ Len(returned) = 1
    /\ returned[1].sql = NA_CONVERSATIONAL
    /\ returned[1].result = GREETING
    /\ Len(calls) = 2

\* the extractor was called and returned the empty string
ExtractionFailed == Called("extract_sql") /\ generated_sql = <<>>

\* C12: a run whose extraction is empty and a run whose execution fails return
\* the same failure envelope, whose error is the one fixed sentence with
\* neither the generated statement nor the error text of the store in it.
C12_SameGenericError ==
    (ExtractionFailed \/ db_error # "") =>
        /\ returned = << [success |-> FALSE, error |-> <<NOT_UNDERSTOOD>>] >>
        /\ \A k \in 1..Len(returned[1].error) : returned[1].error[k] \notin DbErrors

\* C12 witness: the store has rejected a statement, the error was logged and
\* the generic failure envelope returned.
C12_Witness ==
    /\ db_error \in DbErrors
    /\ exec_args # <<>>
    /\ \E k \in 1..Len(log) : log[k] = "MySQL Error"
    /\ returned = << [success |-> FALSE, error |-> <<NOT_UNDERSTOOD>>] >>

\* C13 as stated: when query_ollama returns an error, the run returns a
\* failure envelope whose message is the 'trouble connecting' sentence, not the
\* generic one, and no part of the message is the error text of query_ollama.
C13_BackendDetailHidden ==
    error # "" =>
        /\ Len(returned) = 1
        /\ IsFailureEnvelope(returned[1])
        /\ returned[1].error[1] = CONNECT_TROUBLE
        /\ returned[1].error # <<NOT_UNDERSTOOD>>
        /\ \A k \in 1..Len(returned[1].error) : returned[1].error[k] # error

\* C14 as stated: format_natural_response returns a text and raises no
\* exception, for every question and every result whose rows have the same
\* number of columns.
C14_FormatterNeverRaises == fpc = "formatted" => (~fraised /\ ftext # <<>>)

\* C15 as stated: every response of the backend POST /ai-query whose body has
\* success false is sent with a status of 400 or more, and every response sent
\* with status 200 has success true.
C15_StatusMatchesSuccess ==
    \A k \in 1..Len(http) :
        /\ http[k].body.success = FALSE => http[k].status >= 400
        /\ http[k].status = 200 => http[k].body.success = TRUE

(***************************************************************************)
(* Properties of format_natural_response, checked under SpecFormat.        *)
(***************************************************************************)
\* the lower-cased question holds 'selling' or 'popular' and neither 'spending'
\* nor 'customers'
SellingQuestion(q) ==
    LET ql == lower(q)
    IN  /\ Contains(ql, txt_selling) \/ Contains(ql, txt_popular)
        /\ ~Contains(ql, txt_spending)
        /\ ~Contains(ql, txt_customers)

\* the sentence about the item of a row (name, qty)
SellingSentence(superlative, row) ==
    <<"The " \o superlative \o " selling item is ", str_value(row[1]), " with ",
      str_value(row[2]), " orders.">>

\* C16: for a result of two columns and a question with 'selling' or 'popular'
\* and neither 'spending' nor 'customers', the text is the least-selling
\* sentence about the first row when the question holds 'least' or 'worst' and
\* the best-selling sentence about the first row otherwise, whatever the rows
\* after the first are.
C16_FirstRowDecides ==
    (/\ fpc = "formatted"
     /\ fresult # <<>>
     /\ Len(fresult[1]) = 2
     /\ SellingQuestion(fquestion)) =>
        /\ ~fraised
        /\ ftext = IF \/ Contains(lower(fquestion), txt_least)
                      \/ Contains(lower(fquestion), txt_worst)
                   THEN SellingSentence("least", fresult[1])
                   ELSE SellingSentence("best", fresult[1])

\* C16 witness: a least-selling question on a result of several rows of two
\* columns has been answered with the sentence about the first row.
C16_Witness ==
    /\ fpc = "formatted"
    /\ Len(fresult) > 1
    /\ Len(fresult[1]) = 2
    /\ fresult[Len(fresult)] # fresult[1]
    /\ SellingQuestion(fquestion)
    /\ Contains(lower(fquestion), txt_least)
    /\ ftext = SellingSentence("least", fresult[1])

\* C17: on an empty result the text is exactly "I couldn't find any data for
\* that question.", whatever keywords the question holds.
C17_EmptyResultSentence ==
    (fpc = "formatted" /\ fresult = <<>>) =>
        (~fraised /\ ftext = <<"I couldn't find any data for that question.">>)

\* C17 witness: a question with the keywords 'revenue' and 'customers' on an
\* empty result has been answered with the no-data sentence.
C17_Witness ==
    /\ fpc = "formatted"
    /\ fresult = <<>>
    /\ Contains(lower(fquestion), txt_revenue)
    /\ Contains(lower(fquestion), txt_customers)
    /\ ftext = <<"I couldn't find any data for that question.">>

(***************************************************************************)
(* Properties of the llm-service handler, checked under SpecLlm.           *)
(***************************************************************************)
\* C18 as stated: a question that holds a business term is never answered by
\* the llm-service with a response of type 'conversational', also when one of
\* the keys hello, hi, help, bye, thanks is a substring of it.
C18_BusinessNeverCanned ==
    \A k \in 1..Len(lresponse) :
        HasBusinessTerm(lquestion) =>
            ~("type" \in DOMAIN lresponse[k].body /\ lresponse[k].body.type = "conversational")

(***************************************************************************)
(* Further properties of extract_sql, checked under SpecExtract.           *)
(***************************************************************************)
\* position of the first fence marker, 0 when none
FirstFence(text) == Find(text, FenceClose, 1)

\* position of the fence marker that closes the first one, 0 when none
ClosingFence(text) ==
    IF FirstFence(text) = 0 THEN 0 ELSE Find(text, FenceClose, FirstFence(text) + 3)

\* the text holds a fenced code block, with or without a language tag
HasFencedBlock(text) == ClosingFence(text) # 0

\* the text between the markers of the first fenced block
FenceInside(text) == SubSeq(text, FirstFence(text) + 3, ClosingFence(text) - 1)

\* C19 as stated: for a raw text with a fenced code block, with or without a
\* language tag, the result of extract_sql holds no fence marker and is a piece
\* of the text between the markers.
C19_FenceContentOnly ==
    (xpc # "input" /\ HasFencedBlock(raw_output)) =>
        /\ ~Contains(sql, FenceClose)
        /\ sql = <<>> \/ Contains(FenceInside(raw_output), sql)

\* "(" minus ")" in text[from..to]
Depth(text, from, to) ==
    Cardinality({i \in from..to : text[i] = "("}) - Cardinality({i \in from..to : text[i] = ")"})

\* position of the ")" that closes the first "(", 0 when none
BodyClose(text) ==
    LET open == Find(text, <<"(">>, 1)
        closes == {j \in 1..Len(text) : j > open /\ text[j] = ")" /\ Depth(text, open, j) = 0}
    IN  IF open = 0 \/ closes = {} THEN 0 ELSE SetMin(closes)

\* the text after the body of the common table expression
AfterBody(text) == strip(SubSeq(text, BodyClose(text) + 1, Len(text)))

\* WITH <name> AS (<body that holds SELECT>) <main SELECT statement>
IsCteStatement(text) ==
    /\ startswith(upper(text), kwWITH)
    /\ BodyClose(text) # 0
    /\ Contains(upper(SubSeq(text, Find(text, <<"(">>, 1) + 1, BodyClose(text) - 1)), kwSELECT)
    /\ startswith(upper(AfterBody(text)), kwSELECT)
    /\ ~Contains(text, <<";">>)

\* C20 as stated: for a candidate WITH <name> AS (<body that holds SELECT>)
\* <main SELECT statement>, extract_sql returns exactly the main SELECT
\* statement that follows the body, without the header and the body.
C20_MainSelectKept ==
    (xpc # "input" /\ IsCteStatement(candidate)) => sql = AfterBody(candidate)

(***************************************************************************)
(* Further properties of the classifier and the responder, checked under   *)
(* SpecClassify.                                                           *)
(***************************************************************************)
\* C21: for a question without a business term, is_conversational_query
\* returns True exactly when the lower-cased question holds a conversational
\* phrase; a question with neither term nor phrase is classified Business.
C21_PhraseDecidesWithoutTerm ==
    (cpc # "input" /\ ~HasBusinessTerm(cquestion)) =>
        conversational = HasConversationalPhrase(cquestion)

\* C21 witness: a question with neither a business term nor a conversational
\* phrase has been classified Business.
C21_Witness ==
    /\ cpc = "classified"
    /\ ~HasBusinessTerm(cquestion)
    /\ ~HasConversationalPhrase(cquestion)
    /\ conversational = FALSE

\* the phrases of the five buckets of get_conversational_response
BucketPhrases ==
    LET all == greeting_phrases \o status_phrases \o gratitude_phrases \o farewell_phrases
               \o help_phrases
    IN  {all[k] : k \in 1..Len(all)}

\* C27: every conversational phrase is a phrase of one of the five buckets, so a
\* question classified Conversational never takes the default branch of
\* get_conversational_response and is answered by the sentence of a bucket; a
\* question that matches no bucket is answered with the greeting.
C27_BucketAlwaysMatches ==
    /\ \A k \in 1..Len(CONVERSATIONAL_PHRASES) : CONVERSATIONAL_PHRASES[k] \in BucketPhrases
    /\ (cpc = "responded" /\ conversational) =>
           /\ conversational_bucket(cquestion) # "default"
           /\ response \in {GREETING, STATUS_REPLY, GRATITUDE_REPLY, FAREWELL_REPLY, HELP_REPLY}
    /\ (cpc = "responded" /\ conversational_bucket(cquestion) = "default") =>
           response = GREETING

\* C27 witness: a question classified Conversational for a help phrase alone has
\* been answered with the help sentence.
C27_Witness ==
    /\ cpc = "responded"
    /\ conversational
    /\ ~contains_any(lower(cquestion), greeting_phrases)
    /\ conversational_bucket(cquestion) = "help"
    /\ response = HELP_REPLY

(***************************************************************************)
(* Further properties of format_natural_response, checked under SpecFormat.*)
(***************************************************************************)
\* a formatter run has ended on a result of n columns
FormattedColumns(n) == fpc = "formatted" /\ fresult # <<>> /\ Len(fresult[1]) = n

\* the lower-cased question holds the word
Asks(word) == Contains(lower(fquestion), word)

\* the keyword predicates (a) to (e) of the two-column dispatch, in order
BranchPredicates ==
    << Asks(txt_spending) \/ Asks(txt_customers),
       Asks(txt_selling) \/ Asks(txt_popular),
       Asks(txt_orders) \/ Asks(txt_types),
       Asks(txt_customer) /\ Asks(txt_count),
       Asks(txt_customer) /\ (Asks(txt_spent) \/ Asks(txt_spending)) >>

\* the position of the first predicate that holds, 6 for the fallback
FirstBranch ==
    LET holding == {k \in 1..5 : BranchPredicates[k]}
    IN  IF holding = {} THEN 6 ELSE SetMin(holding)

\* the branch a text of the two-column dispatch was rendered by: 1 stands for
\* (a) and (e), which render alike
RenderedBy(text) ==
    IF text[1] = "Top spending customers:\n" \/ (Len(text) = 4 /\ text[2] = " spent $") THEN 1
    ELSE IF text[1] \in {"The least selling item is ", "The best selling item is "} THEN 2
    ELSE IF text[1] = "Order breakdown: " THEN 3
    ELSE IF Len(text) = 2 /\ text[2] = " unique customers." THEN 4
    ELSE IF text[1] = "Results: " THEN 6
    ELSE 0

\* C23: a result of two columns is rendered by the first of the branches (a)
\* 'spending' or 'customers', (b) 'selling' or 'popular', (c) 'orders' or
\* 'types', (d) 'customer' and 'count', (e) 'customer' and 'spent' or
\* 'spending', (f) fallback, whose predicate holds on the lower-cased question.
C23_FirstBranchWins ==
    FormattedColumns(2) =>
        /\ ~fraised
        /\ RenderedBy(ftext) = IF FirstBranch = 5 THEN 1 ELSE FirstBranch

\* C23 witness: a question with 'customers' and 'selling' on a result of two
\* columns has been rendered by the spending branch.
C23_Witness ==
    /\ FormattedColumns(2)
    /\ Asks(txt_customers)
    /\ Asks(txt_selling)
    /\ RenderedBy(ftext) = 1

\* the sentence for a value of a one-column result, by keyword group
OneColumnSentence(value) ==
    IF value.kind = "none" THEN <<"No data found for that question.">>
    ELSE IF Asks(txt_revenue) \/ Asks(txt_sales) \/ Asks(txt_earnings)
    THEN <<"Total revenue is $", value.text, ".">>
    ELSE IF Asks(txt_customers) \/ Asks(txt_visitors) THEN <<value.text, " unique customers.">>
    ELSE IF Asks(txt_orders) \/ Asks(txt_count) THEN <<value.text, " orders.">>
    ELSE <<"The result is ", value.text, ".">>

\* C24: a result of one column is rendered from the value of its first row
\* alone: the no-data sentence for null, else the sentence of the first keyword
\* group among revenue/sales/earnings, customers/visitors, orders/count that
\* the question holds, else 'The result is <value>.'.
C24_OneColumnDispatch ==
    FormattedColumns(1) => (~fraised /\ ftext = OneColumnSentence(fresult[1][1]))

\* C24 witness: a question with 'revenue' and 'customers' on several rows of
\* one column has been answered with the revenue sentence on the first value.
C24_Witness ==
    /\ FormattedColumns(1)
    /\ Len(fresult) > 1
    /\ Asks(txt_revenue)
    /\ Asks(txt_customers)
    /\ ftext = <<"Total revenue is $", fresult[1][1].text, ".">>

\* the smaller of two numbers
Smaller(a, b) == IF a < b THEN a ELSE b

\* line i of the ranked list
RankedLine(i) == <<ToString(i), ". ", fresult[i][1].text, ": $", fresult[i][2].text>>

\* C25: in the 'spending' / 'customers' branch a result of n > 1 rows of two
\* columns is rendered as 'Top spending customers:' followed by exactly
\* min(n, 5) lines, line i ranking row i; a result of one row is rendered as
\* '<name> spent $<amount>.'.
C25_RankedListOfFive ==
    (FormattedColumns(2) /\ (Asks(txt_spending) \/ Asks(txt_customers))) =>
        /\ ~fraised
        /\ ftext = IF Len(fresult) > 1
                   THEN <<"Top spending customers:\n">> \o
                        join_pieces([i \in 1..Smaller(Len(fresult), 5) |-> RankedLine(i)], "\n")
                   ELSE <<fresult[1][1].text, " spent $", fresult[1][2].text, ".">>

\* C25 witness: a spending question on more than five rows has been rendered
\* as a list that ends with the line of the fifth row.
C25_Witness ==
    /\ FormattedColumns(2)
    /\ Asks(txt_spending)
    /\ Len(fresult) > 5
    /\ SubSeq(ftext, Len(ftext) - 4, Len(ftext)) = RankedLine(5)

\* the rendering of a row of a small result of three or more columns
WideRow(row) ==
    IF Len(row) >= 4
    THEN <<"Order ", row[1].text, ": ", row[3].text, " (", row[4].text, ") - $",
           (IF Len(row) >= 5 THEN row[5].text ELSE "<col4>")>>
    ELSE str_row(row)

\* C26 as stated: a result of three or more columns is rendered as 'I found <N>
\* records for your query.' when it has more than 3 rows, and otherwise as
\* "Here's what I found: " followed by every row, a row of 4 or more columns as
\* 'Order <col0>: <col2> (<col3>) - $<col4>' and a row of 3 columns as its
\* tuple text.
C26_WideResults ==
    (fpc = "formatted" /\ fresult # <<>> /\ Len(fresult[1]) >= 3) =>
        /\ ~fraised
        /\ ftext = IF Len(fresult) > 3
                   THEN <<"I found ", ToString(Len(fresult)), " records for your query.">>
                   ELSE <<"Here's what I found: ">> \o
                        join_pieces([k \in 1..Len(fresult) |-> WideRow(fresult[k])], ", ")

(***************************************************************************)
(* Properties of check_aliases, checked under SpecAliases.                 *)
(***************************************************************************)
\* the aliases introduced after FROM <table> or JOIN <table>, with or without
\* AS, at any FROM or JOIN of the text, lower-cased
ClauseAliases(text) ==
    { lower(from_join_match(text, i)[2]) :
        i \in {j \in 1..Len(text) : from_join_match(text, j) # <<>>} }

\* the prefixes of the dotted references of the text, lower-cased
DottedPrefixes(text) == used_aliases(text, 1)

\* C22 as stated: check_aliases returns exactly the dotted prefixes minus the
\* aliases introduced after FROM <table> or JOIN <table>, and so the empty set
\* when every dotted prefix is an alias declared in a FROM or JOIN clause.
C22_UsedMinusDeclared ==
    apc = "checked" =>
        /\ aliases = DottedPrefixes(atext) \ ClauseAliases(atext)
        /\ DottedPrefixes(atext) \subseteq ClauseAliases(atext) => aliases = {}

(***************************************************************************)
(* Claims about the users table under concurrent calls.                    *)
(***************************************************************************)
\* a call has found no row of its phone and has not yet sent its INSERT
AboutToInsert(c) ==
    ucalls[c].pc = "selected" /\ ucalls[c].existing_user = 0

\* C30: after any interleaving of concurrent insert_user and register_user
\* calls the users table holds at most one row per phone number, and no call
\* that found no row of its phone sends its INSERT after another call has
\* inserted a row of that phone.
C30_OneRowPerPhone ==
    /\ \A p \in Phones : Cardinality(rows_of_phone(users, p)) <= 1
    /\ \A c \in DOMAIN ucalls :
           AboutToInsert(c) => rows_of_phone(users, ucalls[c].phone) = {}

(***************************************************************************)
(* Claims about process_transaction.                                       *)
(***************************************************************************)
\* C29: whenever process_transaction returns success = false, no users,
\* transactions, order_items or add_ons row written by the call remains
\* persisted: the four tables are as they were when it was called.
C29_AllOrNothing ==
    \A i \in 1 .. Len(treturned) :
        ~ treturned[i].success => store = tbefore

(***************************************************************************)
(* Claims about concurrent process_ai_query runs.                          *)
(***************************************************************************)
\* how a call ends when it runs alone with the given question and the given
\* answers of query_ollama and execute_query
AloneOutcome(text, ollama_error, ollama_text, store_error, rows) ==
    IF is_conversational_query(text)
    THEN <<"done", <<[success |-> TRUE, question |-> text, sql |-> NA_CONVERSATIONAL,
                     result |-> get_conversational_response(text)]>> >>
    ELSE IF ollama_error # ""
    THEN <<"done", <<[success |-> FALSE, error |-> <<CONNECT_TROUBLE, ollama_error, ")">>]>> >>
    ELSE IF extract_sql(ollama_text) = <<>> \/ store_error # ""
    THEN <<"done", <<[success |-> FALSE, error |-> <<NOT_UNDERSTOOD>>]>> >>
    ELSE IF format_raises(text, rows)
    THEN <<"raised", <<>> >>
    ELSE <<"done", <<[success |-> TRUE, question |-> text, sql |-> extract_sql(ollama_text),
                     result |-> format_natural_response(text, rows)]>> >>

RunEnded(r) == runs[r].pc \in {"done", "raised"}

\* the run is between its call of query_ollama and its return
RunUnderWay(r) == runs[r].pc \in {"generated", "extracted", "validated", "executed"}

\* C28: in every interleaving of concurrent process_ai_query runs, a run that
\* has ended has ended as it would alone with its question and the answers its
\* collaborators gave it, and the vocabulary tables are as they were at
\* process start.
C28_RunsIsolated ==
    /\ tables = VocabularyTables
    /\ \A r \in DOMAIN runs :
           RunEnded(r) =>
               <<runs[r].pc, runs[r].returned>> =
                   AloneOutcome(runs[r].question, runs[r].error, runs[r].ai_response,
                                runs[r].db_error, runs[r].result)

\* C28 witness: a run has ended with a success envelope that carries its
\* statement and has printed its lines, while another run, under way with a
\* different statement, has printed lines of its own.
C28_Witness ==
    \E r, other \in DOMAIN runs :
        /\ r # other
        /\ RunEnded(r)
        /\ runs[r].returned # <<>> /\ runs[r].returned[1].success
        /\ runs[r].returned[1].sql = runs[r].generated_sql
        /\ runs[r].generated_sql # <<>>
        /\ RunUnderWay(other)
        /\ runs[other].generated_sql \notin {<<>>, runs[r].generated_sql}
        /\ <<r, "Generated SQL">> \in stdout
        /\ <<other, "Warning: Undeclared alias(es)">> \in stdout

====
